---- MODULE Spec2Model ----
(***************************************************************************)
(* Retrieval, citation assembly and response streaming of OBookLLM, its    *)
(* provider registry, and ingestion into and deletion from the index:      *)
(*   backend/src/chains/rag_chain.py  RAGChain                             *)
(*   backend/src/rag.py               stream_chat_response,                *)
(*                                    process_document,                    *)
(*                                    delete_source_documents              *)
(*   backend/src/providers/ollama.py  OllamaProvider.stream_chat           *)
(*   backend/src/providers/registry.py  ProviderRegistry                   *)
(*   backend/src/providers/*.py       health_check of the four adapters    *)
(*   backend/src/providers/gemini.py  GeminiProvider.stream_chat           *)
(*   backend/src/main.py              process_file_task, add_source,       *)
(*                                    delete_source, chat, update_settings *)
(*                                                                         *)
(* A text is a sequence of one-character strings.  The context string of   *)
(* retrieve_context is kept as the sequence of its BEGIN/END blocks, each  *)
(* block holding the three values its f-string interpolates.               *)
(***************************************************************************)
EXTENDS Integers, Sequences, FiniteSets, TLC

VARIABLES
    index,          \* the vector index: a set of stored documents
    pc,             \* position of the request being served
    call,           \* arguments of the call being served
    failed,         \* positions of the similarity searches that raise
    searches,       \* the similarity searches issued, in order
    results,        \* the documents retrieve_context collected
    context,        \* the context blocks, in order
    citation_info,  \* citation id -> CitationInfo
    raised,         \* the exception that left the call ("" when none)
    provState,      \* the provider's stream_chat generator
    provided,       \* fragments the provider generator has yielded
    chainState,     \* the RAGChain.stream_response generator
    chainOut,       \* fragments RAGChain.stream_response has yielded
    wrapState,      \* the rag.stream_chat_response generator
    out,            \* fragments rag.stream_chat_response has delivered
    abort,          \* how the stream was aborted ("" when it was not)
    environ,        \* the API key variables of the process environment
    registry,       \* the ProviderRegistry: its fields and its adapter instances
    regCall,        \* the registry call last served and its outcome
    health,         \* the outcome of the last health check
    calls,          \* the number of registry calls served
    history,        \* the ingestion and deletion calls served, in order
    db,             \* db.notebooks: notebook id -> the sources of its record
    handled,        \* the request handler last run and its outcome
    vectorstore,    \* RAGChain._vectorstore: the embedding function it holds
    embedded_by,    \* the embedding function of the last chain request
    streaming,      \* the adapter and model the stream in flight was started on
    producers,      \* for each fragment provided: what produced it
    gemini          \* a GeminiProvider.stream_chat generator and its consumer

vars == <<index, pc, call, failed, searches, results, context, citation_info,
          raised, provState, provided, chainState, chainOut, wrapState, out,
          abort, environ, registry, regCall, health, calls, history,
          db, handled, vectorstore, embedded_by, streaming, producers,
          gemini>>

retrievalVars == <<searches, results, context, citation_info>>
streamVars == <<provState, provided, chainState, chainOut, wrapState, out, abort>>
registryVars == <<environ, registry, regCall, health, calls>>
handlerVars == <<db, handled>>
embeddingVars == <<vectorstore, embedded_by>>
providerVars == <<streaming, producers>>

----------------------------------------------------------------------------
(* Bounds of the model *)

\* longest selected_sources list; source names are 1..MaxSelected
MaxSelected == 6
\* most chunks the index holds for one source
MaxStored == 4
\* most fragments a provider stream yields
MaxFrags == 3
\* registry calls in one run
MaxCalls == 3

(* Constants of the program *)

\* rag_chain.py:189  len(selected_sources) <= 5
BalancedMax == 5
\* rag_chain.py:194  max(3, ...)
MinPerSource == 3
\* rag_chain.py:245  page_content[:300]
ExcerptLen == 300
\* rag_chain.py:310  n_results=10
StreamNResults == 10

Notebooks == {"n1", "n2"}
SourceNames == 1..MaxSelected
Queries == {1, 2}
NResultsChoices == 1..(StreamNResults + 2)

Max(a, b) == IF a >= b THEN a ELSE b
Min(a, b) == IF a <= b THEN a ELSE b

----------------------------------------------------------------------------
(* Texts and the stored corpus *)

Alphabet == <<"a", "b", "c">>
Text(seed, n) == [p \in 1..n |-> Alphabet[((seed + p) % 3) + 1]]
Ellipsis == <<".", ".", ".">>

\* Lengths of the stored chunks: around the excerpt limit for the first
\* chunks of sources 1 and 2, short elsewhere.
ChunkLength(s, i) ==
    CASE s = 1 /\ i = 0 -> ExcerptLen + 10
      [] s = 1 /\ i = 1 -> ExcerptLen
      [] s = 2 /\ i = 0 -> ExcerptLen + 1
      [] s = 2 /\ i = 1 -> ExcerptLen - 1
      [] OTHER -> 2 + i

StoredCount(nb, s) ==
    IF nb = "n1" THEN (MaxStored + 1 - s) % (MaxStored + 1) ELSE s % 3

\* A stored document: page_content and the metadata add_documents writes.
StoredDocument(nb, s, i) ==
    [notebook_id |-> nb, source_name |-> s, chunk_index |-> i,
     page_content |-> Text(s + i + (IF nb = "n1" THEN 0 ELSE 1), ChunkLength(s, i))]

Corpus ==
    {StoredDocument(nb, s, i) :
        <<nb, s, i>> \in {t \in Notebooks \X SourceNames \X (0..(MaxStored - 1)) :
                            t[3] < StoredCount(t[1], t[2])}}

----------------------------------------------------------------------------
(* The vector index's filtered similarity search *)

\* The three where-filters the code builds.
NotebookFilter(nb) == [op |-> "notebook", notebook_id |-> nb, names |-> {}]
InFilter(nb, sel) ==
    [op |-> "in", notebook_id |-> nb, names |-> {sel[i] : i \in DOMAIN sel}]
SourceFilter(nb, s) == [op |-> "eq", notebook_id |-> nb, names |-> {s}]

MatchesNotebookOnly(doc, f) ==
    /\ doc.notebook_id = f.notebook_id
    /\ f.op /= "eq" \/ doc.source_name \in f.names
Matches(doc, f) ==
    /\ doc.notebook_id = f.notebook_id
    /\ f.op = "notebook" \/ doc.source_name \in f.names

\* Embedding distance of a document to a query: an input of the model.
Distance(q, doc) ==
    IF q = 1 THEN doc.chunk_index * 10 + (10 - doc.source_name)
    ELSE (10 - doc.source_name) * 10 + doc.chunk_index

RECURSIVE Ranked(_, _)
Ranked(q, docs) ==
    IF docs = {} THEN <<>>
    ELSE LET best == CHOOSE d \in docs :
                        \A e \in docs : Distance(q, d) <= Distance(q, e)
         IN <<best>> \o Ranked(q, docs \ {best})

similarity_search(idx, q, k, f) ==
    LET ranked == Ranked(q, {d \in idx : Matches(d, f)})
    IN SubSeq(ranked, 1, Min(k, Len(ranked)))

----------------------------------------------------------------------------
(* RAGChain.retrieve_context *)

\* d[k] = v on a Python dict
DictSet(d, k, v) == [x \in (DOMAIN d) \cup {k} |-> IF x = k THEN v ELSE d[x]]

\* int(a / b) for b > 0: float division truncated towards zero
IntDiv(a, b) == IF a >= 0 THEN a \div b ELSE -((-a) \div b)

per_source_k_floor(n_results, S) == Max(MinPerSource, IntDiv(n_results, S))
per_source_k(n_results, S) == Max(MinPerSource, IntDiv(n_results, S) + 1)

UseBalancedUpTo6(selected_sources) ==
    Len(selected_sources) > 0 /\ Len(selected_sources) <= BalancedMax + 1
\* if selected_sources and len(selected_sources) <= 5
UseBalanced(selected_sources) ==
    Len(selected_sources) > 0 /\ Len(selected_sources) <= BalancedMax

ExcerptNoEllipsis(page_content) ==
    IF Len(page_content) > ExcerptLen
    THEN SubSeq(page_content, 1, ExcerptLen)
    ELSE page_content
\* page_content[:300] + "..." if len(page_content) > 300 else page_content
Excerpt(page_content) ==
    IF Len(page_content) > ExcerptLen
    THEN SubSeq(page_content, 1, ExcerptLen) \o Ellipsis
    ELSE page_content

\* One similarity search of the balanced loop, inside its try/except:
\* acc is [results, searches, raised]; a search that raises is logged
\* and the loop goes on.
BalancedStepNoCatch(acc, idx, q, k, f, fails) ==
    IF acc.raised /= "" THEN acc
    ELSE IF fails
    THEN [acc EXCEPT !.searches = Append(@, [k |-> k, filter |-> f, ok |-> FALSE, n |-> 0]),
                     !.raised = "similarity_search"]
    ELSE LET source_docs == similarity_search(idx, q, k, f)
         IN [acc EXCEPT !.results = @ \o source_docs,
                        !.searches = Append(@, [k |-> k, filter |-> f, ok |-> TRUE,
                                                n |-> Len(source_docs)])]
BalancedStep(acc, idx, q, k, f, fails) ==
    IF fails
    THEN [acc EXCEPT !.searches = Append(@, [k |-> k, filter |-> f, ok |-> FALSE, n |-> 0])]
    ELSE LET source_docs == similarity_search(idx, q, k, f)
         IN [acc EXCEPT !.results = @ \o source_docs,
                        !.searches = Append(@, [k |-> k, filter |-> f, ok |-> TRUE,
                                                n |-> Len(source_docs)])]

RECURSIVE BalancedLoop(_, _, _, _, _, _, _, _)
BalancedLoop(acc, i, idx, nb, q, selected_sources, k, fail) ==
    IF i > Len(selected_sources) THEN acc
    ELSE BalancedLoop(
            BalancedStep(acc, idx, q, k, SourceFilter(nb, selected_sources[i]), i \in fail),
            i + 1, idx, nb, q, selected_sources, k, fail)

\* The single search of global mode; its exception is not caught.
GlobalSearch(idx, nb, q, selected_sources, n_results, fail) ==
    LET filter_dict == IF Len(selected_sources) > 0
                       THEN InFilter(nb, selected_sources)
                       ELSE NotebookFilter(nb)
    IN IF 1 \in fail
       THEN [results |-> <<>>,
             searches |-> <<[k |-> n_results, filter |-> filter_dict, ok |-> FALSE, n |-> 0]>>,
             raised |-> "similarity_search"]
       ELSE LET docs == similarity_search(idx, q, n_results, filter_dict)
            IN [results |-> docs,
                searches |-> <<[k |-> n_results, filter |-> filter_dict, ok |-> TRUE,
                                n |-> Len(docs)]>>,
                raised |-> ""]

Search(idx, nb, q, selected_sources, n_results, fail) ==
    IF UseBalanced(selected_sources)
    THEN BalancedLoop([results |-> <<>>, searches |-> <<>>, raised |-> ""], 1, idx, nb, q,
                      selected_sources,
                      per_source_k(n_results, Len(selected_sources)), fail)
    ELSE GlobalSearch(idx, nb, q, selected_sources, n_results, fail)

IsNewSourceAlways(source_name, source_map) == TRUE
\* if source_name not in source_map
IsNewSource(source_name, source_map) == source_name \notin DOMAIN source_map

\* One iteration of "for doc in results": st is
\* [source_map, citation_info, citation_counter, context_parts].
CitationStep(st, doc) ==
    LET source_name == doc.source_name
        new == IsNewSource(source_name, st.source_map)
        source_map == IF new THEN DictSet(st.source_map, source_name, st.citation_counter)
                      ELSE st.source_map
        info1 == IF new
                 THEN DictSet(st.citation_info, st.citation_counter,
                              [id |-> st.citation_counter, source_name |-> source_name,
                               excerpts |-> <<>>])
                 ELSE st.citation_info
        counter == IF new THEN st.citation_counter + 1 ELSE st.citation_counter
        cid == source_map[source_name]
    IN [source_map |-> source_map,
        citation_info |-> [info1 EXCEPT ![cid].excerpts = Append(@, Excerpt(doc.page_content))],
        citation_counter |-> counter,
        context_parts |-> Append(st.context_parts,
                                 [cid |-> cid, source_name |-> source_name,
                                  text |-> doc.page_content])]

RECURSIVE CitationLoop(_, _, _)
CitationLoop(st, docs, i) ==
    IF i > Len(docs) THEN st ELSE CitationLoop(CitationStep(st, docs[i]), docs, i + 1)

\* "Build context and citations"
AssembleContext(docs) ==
    LET st == CitationLoop([source_map |-> <<>>, citation_info |-> <<>>,
                            citation_counter |-> 1, context_parts |-> <<>>], docs, 1)
    IN [context |-> st.context_parts, citation_info |-> st.citation_info]

\* The whole of retrieve_context: what it issued and what it returned
\* (raised /= "" when it raised instead).
RetrieveContext(idx, nb, q, selected_sources, n_results, fail) ==
    LET found == Search(idx, nb, q, selected_sources, n_results, fail)
        built == AssembleContext(found.results)
    IN IF found.raised /= ""
       THEN [searches |-> found.searches, results |-> <<>>, context |-> <<>>,
             citation_info |-> <<>>, raised |-> found.raised]
       ELSE [searches |-> found.searches, results |-> found.results,
             context |-> built.context, citation_info |-> built.citation_info,
             raised |-> ""]

----------------------------------------------------------------------------
(* Inputs *)

Run(i, j) == [p \in 1..(j - i + 1) |-> i + p - 1]

\* selected_sources: absent/empty, every run i..j of source names, a
\* reversed pair, a repeated name (adjacent, and around another name), a
\* name without stored chunks first and a list of more than five entries
\* that names two sources only.
Selections ==
    {<<>>} \cup {Run(i, j) : <<i, j>> \in {t \in SourceNames \X SourceNames : t[1] <= t[2]}}
           \cup {<<2, 1>>, <<1, 1>>, <<5, 2, 1>>, <<2, 1, 2>>, <<2, 1, 2, 1, 2, 1>>}

\* The searches that raise: any subset of the positions searched.
FailChoices(selected_sources) ==
    IF UseBalanced(selected_sources)
    THEN SUBSET (1..Len(selected_sources))
    ELSE {{}, {1}}

\* messages: the retrieval query is the content of a message
UserMsg(q) == [role |-> "user", content |-> q]
AssistantMsg(q) == [role |-> "assistant", content |-> q]
\* The chat handler passes request.messages on whatever the role of its last
\* entry: a list may end with an assistant message.
MessageLists ==
    {<<UserMsg(1)>>, <<UserMsg(1), AssistantMsg(2), UserMsg(2)>>,
     <<UserMsg(1), AssistantMsg(2)>>}

\* selected_sources of a chat request
StreamSelections == {<<>>, <<1>>, <<2, 1>>, Run(1, MaxSelected)}

\* full_source_content of a chat request: empty, one short source, two
\* sources of which one is longer than an excerpt, the same name twice
FullSource(name, n) == [name |-> name, content |-> Text(name, n)]
FullChoices ==
    {<<>>, <<FullSource(1, 3)>>, <<FullSource(2, 3), FullSource(1, ExcerptLen + 10)>>,
     <<FullSource(1, 3), FullSource(1, 2)>>}

\* text fragments a chat provider may yield
Fragments == {"x", "y"}

NoCall ==
    [op |-> "", notebook_id |-> "", query |-> 0, selected_sources |-> <<>>,
     n_results |-> 0, messages |-> <<>>, full_source_content |-> <<>>]

----------------------------------------------------------------------------
(* Fragments of the response stream *)

TextFragment(t) == [kind |-> "text", text |-> t, data |-> <<>>]
\* "\n\n---CITATIONS---\n"
SentinelFragment == [kind |-> "sentinel", text |-> "\n\n---CITATIONS---\n", data |-> <<>>]
\* f"Error generating response: {str(e)}"
ErrorFragment(e) == [kind |-> "error", text |-> e, data |-> <<>>]

\* {str(cid): {"name": ..., "excerpts": ...}} and json.dumps of it,
\* kept as the object the JSON text denotes
CitationData(info) ==
    [key \in {ToString(cid) : cid \in DOMAIN info} |->
        LET cid == CHOOSE c \in DOMAIN info : ToString(c) = key
        IN [name |-> info[cid].source_name, excerpts |-> info[cid].excerpts]]
JsonFragment(info) == [kind |-> "json", text |-> "", data |-> CitationData(info)]

----------------------------------------------------------------------------
(* RAGChain.stream_response, full context mode *)

\* "(Full document context used)"
FullSentinel == <<"(Full document context used)">>

FullContextStepTruncated(st, i, src) ==
    LET cid == i + 1
    IN [context_parts |-> Append(st.context_parts,
                                 [cid |-> cid, source_name |-> src.name,
                                  text |-> SubSeq(src.content, 1,
                                                  Min(ExcerptLen, Len(src.content)))]),
        citation_info |-> DictSet(st.citation_info, cid,
                                  [id |-> cid, source_name |-> src.name,
                                   excerpts |-> <<Excerpt(src.content)>>])]
\* One iteration of "for i, src in enumerate(full_source_content)":
\* st is [context_parts, citation_info], i is 0-based.
FullContextStep(st, i, src) ==
    LET cid == i + 1
    IN [context_parts |-> Append(st.context_parts,
                                 [cid |-> cid, source_name |-> src.name,
                                  text |-> src.content]),
        citation_info |-> DictSet(st.citation_info, cid,
                                  [id |-> cid, source_name |-> src.name,
                                   excerpts |-> <<FullSentinel>>])]

RECURSIVE FullContextLoop(_, _, _)
FullContextLoop(st, full_source_content, i) ==
    IF i >= Len(full_source_content) THEN st
    ELSE FullContextLoop(FullContextStep(st, i, full_source_content[i + 1]),
                         full_source_content, i + 1)

FullContext(full_source_content) ==
    LET st == FullContextLoop([context_parts |-> <<>>, citation_info |-> <<>>],
                              full_source_content, 0)
    IN [searches |-> <<>>, results |-> <<>>, context |-> st.context_parts,
        citation_info |-> st.citation_info, raised |-> ""]

\* The context step of stream_response: full context when
\* full_source_content is non-empty, retrieval with n_results=10 otherwise.
\* user_message = messages[-1]["content"]
user_message(messages) == messages[Len(messages)].content

BuildContext(idx, nb, messages, selected_sources, full_source_content, fail) ==
    IF Len(full_source_content) > 0
    THEN FullContext(full_source_content)
    ELSE RetrieveContext(idx, nb, user_message(messages), selected_sources,
                         StreamNResults, fail)

----------------------------------------------------------------------------
(* Provider registry: providers/registry.py, providers/base.py and the
   four adapters.  None is Python's None.  The adapter instances are
   kept by name: instances[n] counts the instances built for name n (0
   when there is none, so it names the instance _instances[n] holds), and
   objects[n] holds the fields of that instance. *)

None == "None"
Absent == "Absent"

\* ProviderRegistry.PROVIDERS, in the order of the dict
PROVIDERS == {"ollama", "gemini", "anthropic", "openai"}
ProviderOrder == <<"ollama", "gemini", "anthropic", "openai">>

\* provider names a caller may ask for: the registered ones and one that
\* is not registered
RequestedNames == PROVIDERS \cup {"mistral"}

\* model names a caller may pass
ModelNames == {None, "m1"}

\* Python truth of an optional string
Truthy(v) == v /= None /\ v /= ""

\* a or b
Or(a, b) == IF Truthy(a) THEN a ELSE b

\* the process environment: the API key variable of each provider, None
\* when it is not set
EmptyEnviron == [n \in PROVIDERS |-> None]
KeysEnviron == [n \in PROVIDERS |-> IF n = "ollama" THEN None ELSE "envkey"]
Environs == {EmptyEnviron, KeysEnviron}

\* capabilities.supports_embeddings of each adapter class
supports_embeddings(cls) == cls /= "anthropic"

DEFAULT_CHAT_MODEL(cls) ==
    CASE cls = "ollama" -> "llama3"
      [] cls = "gemini" -> "gemini-1.5-flash"
      [] cls = "anthropic" -> "claude-sonnet-4-5-20250929"
      [] cls = "openai" -> "gpt-4.1-mini"

DEFAULT_EMBEDDING_MODEL(cls) ==
    CASE cls = "ollama" -> "nomic-embed-text"
      [] cls = "gemini" -> "gemini-embedding-001"
      [] cls = "anthropic" -> None
      [] cls = "openai" -> "text-embedding-3-small"

\* cls(api_key=api_key): the key-based adapters take api_key or the
\* environment's key; OllamaProvider has no api_key
NewProvider(cls, api_key, env) ==
    [cls |-> cls,
     api_key |-> IF cls = "ollama" THEN None ELSE Or(api_key, env[cls]),
     chat_model |-> DEFAULT_CHAT_MODEL(cls),
     embedding_model |-> DEFAULT_EMBEDDING_MODEL(cls)]

\* the fields of a name that has no instance
NoProvider == [cls |-> "", api_key |-> None, chat_model |-> None, embedding_model |-> None]

\* ProviderRegistry.__init__
NewRegistry ==
    [instances |-> [n \in PROVIDERS |-> 0],
     objects |-> [n \in PROVIDERS |-> NoProvider],
     chat_provider_name |-> "ollama",
     chat_model |-> None,
     embedding_provider_name |-> "ollama",
     embedding_model |-> None]

\* the outcome of a registry operation: the registry after it, the
\* exception that left it ("" when none) and the instance it returned
\* (0 when none)
Outcome(reg, exc, ret) == [reg |-> reg, raised |-> exc, ret |-> ret]

\* self._instances[name] = cls(api_key=api_key)
CreateInstance(reg, env, name, api_key) ==
    [reg EXCEPT !.objects[name] = NewProvider(name, api_key, env),
                !.instances[name] = @ + 1]

GetProvider(reg, env, name) ==
    IF name \notin PROVIDERS
    THEN Outcome(reg, "ValueError", 0)
    ELSE LET r == IF reg.instances[name] = 0
                  THEN CreateInstance(reg, env, name, None)
                  ELSE reg
         IN Outcome(r, "", r.instances[name])

\* set_chat_provider assigning before it validates the name
SetChatProviderAssignFirst(reg, env, provider_name, model_name) ==
    LET r == [reg EXCEPT !.chat_provider_name = provider_name,
                         !.chat_model = model_name]
    IN IF provider_name \notin PROVIDERS
       THEN Outcome(r, "ValueError", 0)
       ELSE IF Truthy(model_name)
            THEN LET g == GetProvider(r, env, provider_name)
                 IN Outcome([g.reg EXCEPT !.objects[provider_name].chat_model = model_name],
                            "", 0)
            ELSE Outcome(r, "", 0)
SetChatProvider(reg, env, provider_name, model_name) ==
    IF provider_name \notin PROVIDERS
    THEN Outcome(reg, "ValueError", 0)
    ELSE LET r == [reg EXCEPT !.chat_provider_name = provider_name,
                              !.chat_model = model_name]
         IN IF Truthy(model_name)
            THEN LET g == GetProvider(r, env, provider_name)
                 IN Outcome([g.reg EXCEPT !.objects[provider_name].chat_model = model_name],
                            "", 0)
            ELSE Outcome(r, "", 0)

\* set_embedding_provider assigning before it validates the capability
SetEmbeddingProviderAssignFirst(reg, env, provider_name, model_name) ==
    IF provider_name \notin PROVIDERS
    THEN Outcome(reg, "ValueError", 0)
    ELSE LET g == GetProvider(reg, env, provider_name)
             r == [g.reg EXCEPT !.embedding_provider_name = provider_name,
                                !.embedding_model = model_name]
         IN IF ~supports_embeddings(provider_name)
            THEN Outcome(r, "ValueError", 0)
            ELSE IF Truthy(model_name)
                 THEN Outcome([r EXCEPT !.objects[provider_name].embedding_model = model_name],
                              "", 0)
                 ELSE Outcome(r, "", 0)

SetEmbeddingProvider(reg, env, provider_name, model_name) ==
    IF provider_name \notin PROVIDERS
    THEN Outcome(reg, "ValueError", 0)
    ELSE LET g == GetProvider(reg, env, provider_name)
         IN IF ~supports_embeddings(g.reg.objects[provider_name].cls)
            THEN Outcome(g.reg, "ValueError", 0)
            ELSE LET r == [g.reg EXCEPT !.embedding_provider_name = provider_name,
                                        !.embedding_model = model_name]
                 IN IF Truthy(model_name)
                    THEN Outcome([r EXCEPT !.objects[provider_name].embedding_model
                                               = model_name], "", 0)
                    ELSE Outcome(r, "", 0)

\* list_providers: get_provider for every registered name
RECURSIVE ListProvidersLoop(_, _, _)
ListProvidersLoop(reg, env, i) ==
    IF i > Len(ProviderOrder) THEN reg
    ELSE ListProvidersLoop(GetProvider(reg, env, ProviderOrder[i]).reg, env, i + 1)

ListProviders(reg, env) == Outcome(ListProvidersLoop(reg, env, 1), "", 0)

\* One entry of settings["api_keys"] replacing the instance it finds
ApiKeyStepReplace(reg, env, provider_name, api_key) ==
    IF provider_name \in PROVIDERS
    THEN IF provider_name = "ollama"
         THEN Outcome(reg, "TypeError", 0)
         ELSE Outcome(CreateInstance(reg, env, provider_name, api_key), "", 0)
    ELSE Outcome(reg, "", 0)

\* One entry of settings["api_keys"]: the key of an existing instance is
\* set in place; a registered name without instance is created with the
\* key, which OllamaProvider.__init__ does not accept; any other name is
\* skipped.
ApiKeyStep(reg, env, provider_name, api_key) ==
    IF provider_name \in PROVIDERS /\ reg.instances[provider_name] /= 0
    THEN Outcome([reg EXCEPT !.objects[provider_name].api_key = api_key], "", 0)
    ELSE IF provider_name \in PROVIDERS
         THEN IF provider_name = "ollama"
              THEN Outcome(reg, "TypeError", 0)
              ELSE Outcome(CreateInstance(reg, env, provider_name, api_key), "", 0)
         ELSE Outcome(reg, "", 0)

RECURSIVE ApiKeyLoop(_, _, _, _)
ApiKeyLoop(reg, env, api_keys, i) ==
    IF i > Len(api_keys) THEN Outcome(reg, "", 0)
    ELSE LET s == ApiKeyStep(reg, env, api_keys[i].name, api_keys[i].key)
         IN IF s.raised /= "" THEN s
            ELSE ApiKeyLoop(s.reg, env, api_keys, i + 1)

\* settings.get(key, "ollama")
GetOrOllama(v) == IF v = Absent THEN "ollama" ELSE v

ConfigureFromSettings(reg, env, settings) ==
    LET keys == ApiKeyLoop(reg, env, settings.api_keys, 1)
    IN IF keys.raised /= "" THEN keys
       ELSE LET chat == SetChatProvider(keys.reg, env, GetOrOllama(settings.chat_provider),
                                        settings.chat_model)
            IN IF chat.raised /= "" THEN chat
               ELSE LET emb == SetEmbeddingProvider(
                                   chat.reg, env, GetOrOllama(settings.embedding_provider),
                                   settings.embedding_model)
                    IN IF emb.raised = "ValueError"
                       THEN SetEmbeddingProvider(emb.reg, env, "ollama",
                                                 settings.embedding_model)
                       ELSE emb

\* What the backend does with the live call of a health check: it answers
\* with a status code, or the call raises an exception with a message.
\* The SDKs of the key-based adapters raise on a status that is not 2xx.
Response(status) == [kind |-> "response", status |-> status, message |-> ""]
Raises(message) == [kind |-> "exception", status |-> 0, message |-> message]
QuotaMessage == "Error code: 429 - insufficient_quota"
ExceptionMessages == {"timed out", QuotaMessage}
BackendOutcomes ==
    {Response(200), Response(500)} \cup {Raises(m) : m \in ExceptionMessages}

\* "insufficient_quota" in error_msg
HasInsufficientQuota(error_msg) == error_msg = QuotaMessage

\* the dict a health check returns; an "ok" result has no code
OkResult(message) == [status |-> "ok", message |-> message]
ErrorResult(message, code) == [status |-> "error", message |-> message, code |-> code]

\* what became of a health check: the dict returned, whether the backend
\* was called, and the exception that left the check ("" when none)
Checked(result, called) == [result |-> result, called |-> called, raised |-> ""]
NotChecked == [result |-> [status |-> "none"], called |-> FALSE, raised |-> ""]

\* the exception the SDK of a key-based adapter raises for an outcome
SdkError(outcome) ==
    IF outcome.kind = "exception" THEN outcome.message ELSE "Error code: 500"
SdkFails(outcome) == outcome.kind = "exception" \/ outcome.status /= 200

OllamaHealthCheck(provider, outcome) ==
    IF outcome.kind = "exception"
    THEN Checked(ErrorResult(<<"Could not connect to Ollama: ", outcome.message>>,
                             "connection_error"), TRUE)
    ELSE IF outcome.status = 200
         THEN Checked(OkResult(<<"Ollama is reachable">>), TRUE)
         ELSE Checked(ErrorResult(<<"Ollama returned ", ToString(outcome.status)>>,
                                  "http_error"), TRUE)

\* the OpenAI health check without its test of the API key
OpenAIHealthCheckNoKeyTest(provider, outcome) ==
    IF SdkFails(outcome)
    THEN IF HasInsufficientQuota(SdkError(outcome))
         THEN Checked(ErrorResult(<<"Insufficient quota. Please check your billing.">>,
                                  "insufficient_quota"), TRUE)
         ELSE Checked(ErrorResult(<<SdkError(outcome)>>, "api_error"), TRUE)
    ELSE Checked(OkResult(<<"OpenAI is healthy">>), TRUE)

OpenAIHealthCheck(provider, outcome) ==
    IF ~Truthy(provider.api_key)
    THEN Checked(ErrorResult(<<"API key not configured">>, "missing_api_key"), FALSE)
    ELSE IF SdkFails(outcome)
         THEN IF HasInsufficientQuota(SdkError(outcome))
              THEN Checked(ErrorResult(<<"Insufficient quota. Please check your billing.">>,
                                       "insufficient_quota"), TRUE)
              ELSE Checked(ErrorResult(<<SdkError(outcome)>>, "api_error"), TRUE)
         ELSE Checked(OkResult(<<"OpenAI is healthy">>), TRUE)

GeminiHealthCheck(provider, outcome) ==
    IF ~Truthy(provider.api_key)
    THEN Checked(ErrorResult(<<"API key not configured">>, "missing_api_key"), FALSE)
    ELSE IF SdkFails(outcome)
         THEN Checked(ErrorResult(<<SdkError(outcome)>>, "api_error"), TRUE)
         ELSE Checked(OkResult(<<"Gemini is healthy">>), TRUE)

AnthropicHealthCheck(provider, outcome) ==
    IF ~Truthy(provider.api_key)
    THEN Checked(ErrorResult(<<"API key not configured">>, "missing_api_key"), FALSE)
    ELSE IF SdkFails(outcome)
         THEN Checked(ErrorResult(<<SdkError(outcome)>>, "api_error"), TRUE)
         ELSE Checked(OkResult(<<"Anthropic is healthy">>), TRUE)

HealthCheck(provider, outcome) ==
    CASE provider.cls = "ollama" -> OllamaHealthCheck(provider, outcome)
      [] provider.cls = "openai" -> OpenAIHealthCheck(provider, outcome)
      [] provider.cls = "gemini" -> GeminiHealthCheck(provider, outcome)
      [] provider.cls = "anthropic" -> AnthropicHealthCheck(provider, outcome)

\* settings dicts of configure_from_settings; Absent is a missing key
ApiKeyEntry(name, key) == [name |-> name, key |-> key]
Settings(api_keys, chat_provider, chat_model, embedding_provider, embedding_model) ==
    [api_keys |-> api_keys, chat_provider |-> chat_provider, chat_model |-> chat_model,
     embedding_provider |-> embedding_provider, embedding_model |-> embedding_model]
SettingsChoices ==
    {Settings(<<>>, Absent, None, Absent, None),
     Settings(<<ApiKeyEntry("openai", "k1")>>, "openai", "m1", "openai", "m1"),
     Settings(<<ApiKeyEntry("gemini", "")>>, "gemini", None, "anthropic", "m1"),
     Settings(<<ApiKeyEntry("anthropic", "k1"), ApiKeyEntry("ollama", "k1")>>,
              "anthropic", "m1", "gemini", None),
     Settings(<<ApiKeyEntry("mistral", "k1")>>, "mistral", None, "openai", None),
     Settings(<<>>, "anthropic", None, "mistral", "m1")}

\* the registry call last served
NoRegCall ==
    [op |-> "", provider_name |-> "", model_name |-> None,
     embedding_provider |-> "", raised |-> "", ret |-> 0]

----------------------------------------------------------------------------
(* The notebook records, the chain's embedding function and the streams *)

\* A source of a notebook record: upload_file pushes it with status
\* "processing" and no content; process_file_task and add_source store
\* the content with status "ready".
Source(name, status, content) == [name |-> name, status |-> status, content |-> content]

\* db.notebooks when the process starts: n1 holds two ready sources, n2
\* one, and each holds an uploaded source whose task has not run yet.
InitialNotebooks ==
    [nb \in Notebooks |->
        IF nb = "n1"
        THEN <<Source(1, "ready", Text(1, 3)), Source(2, "ready", Text(2, 4)),
               Source(3, "processing", <<>>)>>
        ELSE <<Source(1, "ready", Text(1, 1)), Source(3, "processing", <<>>)>>]

\* no handler has run
NoRequest ==
    [op |-> "", notebook_id |-> "", source_name |-> 0, status |-> "",
     raised |-> "", attempts |-> <<>>]

\* An embedding function or a chat stream is bound to an adapter instance
\* and to the model that instance named when the binding was made.
Binding(provider_name, instance, model) ==
    [provider_name |-> provider_name, instance |-> instance, model |-> model]
\* self._vectorstore = None; no stream started
NoEmbeddings == Binding(None, 0, None)

\* registry.get_embedding_provider().get_embeddings(): the embedding
\* function of the adapter that is active now, with the model the adapter
\* names now
ActiveEmbeddings(reg, env) ==
    LET name == reg.embedding_provider_name
        g == GetProvider(reg, env, name)
    IN [reg |-> g.reg,
        embeddings |-> Binding(name, g.reg.instances[name],
                               g.reg.objects[name].embedding_model)]

\* RAGChain._get_vectorstore: builds the store with the active embedding
\* function when self._vectorstore is None, returns the one it holds
\* otherwise
GetVectorstore(vs, reg, env) ==
    IF vs = NoEmbeddings
    THEN LET a == ActiveEmbeddings(reg, env)
         IN [vectorstore |-> a.embeddings, reg |-> a.reg]
    ELSE [vectorstore |-> vs, reg |-> reg]

\* no GeminiProvider.stream_chat generator exists
NoStream == [state |-> "none", response |-> <<>>, pos |-> 0, delivered |-> <<>>]

----------------------------------------------------------------------------
(* State machine *)

\* Generator states: "none" (not created), "running" (executing or
\* awaiting), "suspended" (at a yield), "done" (returned), "raised"
\* (left by its own exception), "released" (dropped while suspended, its
\* aclose() scheduled on the event loop), "closed" (closed by
\* GeneratorExit or cancellation).

\* The state after construction, whatever the process environment.
Constructed ==
    /\ index = Corpus
    /\ pc = "idle"
    /\ call = NoCall
    /\ failed = {}
    /\ searches = <<>>
    /\ results = <<>>
    /\ context = <<>>
    /\ citation_info = <<>>
    /\ raised = ""
    /\ provState = "none"
    /\ provided = <<>>
    /\ chainState = "none"
    /\ chainOut = <<>>
    /\ wrapState = "none"
    /\ out = <<>>
    /\ abort = ""
    /\ registry = NewRegistry
    /\ regCall = NoRegCall
    /\ health = NotChecked
    /\ calls = 0
    /\ history = <<>>
    /\ db = InitialNotebooks
    /\ handled = NoRequest
    /\ vectorstore = NoEmbeddings
    /\ embedded_by = NoEmbeddings
    /\ streaming = NoEmbeddings
    /\ producers = <<>>
    /\ gemini = NoStream

\* Retrieval and streaming do not read the environment.
Init ==
    /\ Constructed
    /\ environ = EmptyEnviron

\* A call of RAGChain.retrieve_context.
retrieve_context ==
    /\ pc = "idle"
    /\ \E nb \in Notebooks, q \in Queries, sel \in Selections, n \in NResultsChoices :
        \E fail \in FailChoices(sel) :
            LET r == RetrieveContext(index, nb, q, sel, n, fail)
            IN /\ call' = [NoCall EXCEPT !.op = "retrieve_context", !.notebook_id = nb,
                                         !.query = q, !.selected_sources = sel,
                                         !.n_results = n]
               /\ failed' = fail
               /\ searches' = r.searches
               /\ results' = r.results
               /\ context' = r.context
               /\ citation_info' = r.citation_info
               /\ raised' = r.raised
               /\ pc' = IF r.raised = "" THEN "returned" ELSE "raised"
    /\ LET v == GetVectorstore(vectorstore, registry, environ)
       IN /\ vectorstore' = v.vectorstore
          /\ embedded_by' = v.vectorstore
          /\ registry' = v.reg
    /\ UNCHANGED <<environ, regCall, health, calls, history, index, handlerVars,
                   providerVars, gemini, streamVars>>

\* except Exception as e: yield f"Error generating response: {str(e)}"
OnStreamErrorPropagate(e) ==
    /\ wrapState' = "raised"
    /\ out' = out
    /\ raised' = e
    /\ pc' = "done"
OnStreamError(e) ==
    /\ wrapState' = "suspended"
    /\ out' = Append(out, ErrorFragment(e))
    /\ raised' = ""
    /\ pc' = "error"

\* registry.get_chat_provider() and the model its stream_chat takes from
\* the adapter (model = model_name or self._chat_model, no model_name
\* being passed)
ChatBinding(reg, env) ==
    LET name == reg.chat_provider_name
        g == GetProvider(reg, env, name)
    IN [reg |-> g.reg,
        binding |-> Binding(name, g.reg.instances[name], g.reg.objects[name].chat_model)]

\* The first __anext__ of rag.stream_chat_response: stream_response builds
\* the context (taking the vector store unless it is given the full
\* content), takes the chat provider and starts its stream_chat.
BeginStream(nb, messages, sel, full, fail) ==
    LET r == BuildContext(index, nb, messages, sel, full, fail)
        v == IF Len(full) > 0
             THEN [vectorstore |-> vectorstore, reg |-> registry]
             ELSE GetVectorstore(vectorstore, registry, environ)
        c == ChatBinding(v.reg, environ)
    IN /\ call' = [NoCall EXCEPT !.op = "stream_response", !.notebook_id = nb,
                                 !.query = user_message(messages),
                                 !.selected_sources = sel,
                                 !.n_results = StreamNResults,
                                 !.messages = messages,
                                 !.full_source_content = full]
       /\ failed' = fail
       /\ searches' = r.searches
       /\ results' = r.results
       /\ context' = r.context
       /\ citation_info' = r.citation_info
       /\ vectorstore' = v.vectorstore
       /\ embedded_by' = IF Len(full) > 0 THEN embedded_by ELSE v.vectorstore
       /\ IF r.raised /= ""
          THEN /\ chainState' = "raised"
               /\ provState' = "none"
               /\ abort' = "retrieval_error"
               /\ registry' = v.reg
               /\ streaming' = streaming
               /\ OnStreamError(r.raised)
          ELSE /\ chainState' = "running"
               /\ provState' = "running"
               /\ wrapState' = "running"
               /\ abort' = ""
               /\ raised' = ""
               /\ out' = out
               /\ registry' = c.reg
               /\ streaming' = c.binding
               /\ pc' = "awaiting"
       /\ UNCHANGED <<provided, chainOut, producers>>

stream_begin ==
    /\ pc = "idle"
    /\ \E nb \in Notebooks, messages \in MessageLists, sel \in StreamSelections,
          full \in FullChoices :
        \E fail \in (IF Len(full) > 0 THEN {{}} ELSE FailChoices(sel)) :
            BeginStream(nb, messages, sel, full, fail)
    /\ UNCHANGED <<environ, regCall, health, calls, history, index, handlerVars, gemini>>

\* The provider yields a fragment; stream_response and
\* stream_chat_response each yield it on.
Relay(f) ==
    /\ chainOut' = Append(chainOut, TextFragment(f))
    /\ out' = Append(out, TextFragment(f))

\* what the registry names as the chat adapter and that adapter's model
ActiveChat(reg) ==
    Binding(reg.chat_provider_name, reg.instances[reg.chat_provider_name],
            reg.objects[reg.chat_provider_name].chat_model)

\* a stream whose fragments come from whatever the registry names when
\* the fragment is produced
ProducerActive(bound, reg) == ActiveChat(reg)
\* The fragments of a stream come from the generator stream_chat returned:
\* it belongs to the adapter instance it was called on and posted its
\* request with the model read when it started.
Producer(bound, reg) == bound

provider_yield ==
    /\ pc = "awaiting"
    /\ Len(provided) < MaxFrags
    /\ \E f \in Fragments :
        /\ provided' = Append(provided, f)
        /\ Relay(f)
    /\ producers' = Append(producers, [by |-> Producer(streaming, registry),
                                       active |-> ActiveChat(registry)])
    /\ provState' = "suspended"
    /\ chainState' = "suspended"
    /\ wrapState' = "suspended"
    /\ pc' = "fragment"
    /\ UNCHANGED <<registryVars, history, index, handlerVars, embeddingVars, streaming,
                   gemini, call, failed, retrievalVars, raised, abort>>

\* The consumer asks for the next fragment after a provider fragment.
consumer_next ==
    /\ pc = "fragment"
    /\ provState' = "running"
    /\ chainState' = "running"
    /\ wrapState' = "running"
    /\ pc' = "awaiting"
    /\ UNCHANGED <<registryVars, history, index, handlerVars, embeddingVars,
                   providerVars, gemini,
                   call, failed, retrievalVars, raised, provided, chainOut, out,
                   abort>>

\* "if citation_info:" after the provider loop
HasCitationsAlways(info) == TRUE
HasCitations(info) == DOMAIN info /= {}

\* The provider stream ends: stream_response leaves its loop and yields
\* the sentinel when there are citations, and returns otherwise.
provider_end ==
    /\ pc = "awaiting"
    /\ provState' = "done"
    /\ IF HasCitations(citation_info)
       THEN /\ chainOut' = Append(chainOut, SentinelFragment)
            /\ out' = Append(out, SentinelFragment)
            /\ chainState' = "suspended"
            /\ wrapState' = "suspended"
            /\ pc' = "sentinel"
       ELSE /\ chainOut' = chainOut
            /\ out' = out
            /\ chainState' = "done"
            /\ wrapState' = "done"
            /\ pc' = "done"
    /\ UNCHANGED <<registryVars, history, index, handlerVars, embeddingVars,
                   providerVars, gemini,
                   call, failed, retrievalVars, raised, provided, abort>>

\* yield json.dumps(citation_data)
yield_citations ==
    /\ pc = "sentinel"
    /\ chainOut' = Append(chainOut, JsonFragment(citation_info))
    /\ out' = Append(out, JsonFragment(citation_info))
    /\ pc' = "json"
    /\ UNCHANGED <<registryVars, history, index, handlerVars, embeddingVars,
                   providerVars, gemini,
                   call, failed, retrievalVars, raised, provState, provided,
                   chainState, wrapState, abort>>

\* The consumer asks once more after the last fragment: the generators
\* return.
stream_end ==
    /\ pc \in {"json", "error"}
    /\ chainState' = IF chainState = "suspended" THEN "done" ELSE chainState
    /\ wrapState' = "done"
    /\ pc' = "done"
    /\ UNCHANGED <<registryVars, history, index, handlerVars, embeddingVars,
                   providerVars, gemini,
                   call, failed, retrievalVars, raised, provState, provided,
                   chainOut, out, abort>>

\* The provider call raises: the exception leaves stream_chat and
\* stream_response and is caught by stream_chat_response.
provider_raise ==
    /\ pc = "awaiting"
    /\ provState' = "raised"
    /\ chainState' = "raised"
    /\ abort' = "provider_error"
    /\ OnStreamError("provider")
    /\ UNCHANGED <<registryVars, history, index, handlerVars, embeddingVars,
                   providerVars, gemini,
                   call, failed, retrievalVars, provided, chainOut>>

\* What an exception passing through "async for chunk in ...: yield chunk"
\* leaves behind: the lines after the loop do not run.
AbortedStreamFooter ==
    /\ chainOut' = chainOut \o <<SentinelFragment, JsonFragment(citation_info)>>
    /\ out' = out \o <<SentinelFragment, JsonFragment(citation_info)>>
AbortedStream ==
    /\ chainOut' = chainOut
    /\ out' = out

\* The consumer closes the stream while it holds a fragment:
\* GeneratorExit is raised at the yield of stream_chat_response, which
\* "except Exception" does not catch; the generator of stream_response is
\* dropped while suspended.
consumer_close ==
    /\ pc \in {"fragment", "sentinel", "json", "error"}
    /\ wrapState' = "closed"
    /\ chainState' = IF chainState = "suspended" THEN "released" ELSE chainState
    /\ abort' = IF pc = "fragment" THEN "closed" ELSE abort
    /\ pc' = "aborted"
    /\ AbortedStream
    /\ UNCHANGED <<registryVars, history, index, handlerVars, embeddingVars,
                   providerVars, gemini,
                   call, failed, retrievalVars, raised, provState, provided>>

\* The consumer's task is cancelled while the provider call is awaited:
\* CancelledError leaves the provider's "async with" blocks and the three
\* generators, and reaches the consumer.
consumer_cancel ==
    /\ pc = "awaiting"
    /\ provState' = "closed"
    /\ chainState' = "closed"
    /\ wrapState' = "closed"
    /\ raised' = "CancelledError"
    /\ abort' = "cancelled"
    /\ pc' = "aborted"
    /\ AbortedStream
    /\ UNCHANGED <<registryVars, history, index, handlerVars, embeddingVars,
                   providerVars, gemini,
                   call, failed, retrievalVars, provided>>

\* The event loop runs the aclose() of the dropped stream_response
\* generator: GeneratorExit at its yield, and the provider generator is
\* dropped in turn.
finalize_chain ==
    /\ chainState = "released"
    /\ chainState' = "closed"
    /\ provState' = IF provState = "suspended" THEN "released" ELSE provState
    /\ UNCHANGED <<registryVars, history, index, handlerVars, embeddingVars,
                   providerVars, gemini,
                   pc, call, failed, retrievalVars, raised, provided, chainOut,
                   wrapState, out, abort>>

\* The event loop runs the aclose() of the dropped provider generator:
\* its "async with" blocks close the response and the client.
finalize_provider ==
    /\ provState = "released"
    /\ provState' = "closed"
    /\ UNCHANGED <<registryVars, history, index, handlerVars, embeddingVars,
                   providerVars, gemini,
                   pc, call, failed, retrievalVars, raised, provided, chainState,
                   chainOut, wrapState, out, abort>>

Next ==
    \/ retrieve_context
    \/ stream_begin
    \/ provider_yield
    \/ consumer_next
    \/ provider_end
    \/ yield_citations
    \/ stream_end
    \/ provider_raise
    \/ consumer_close
    \/ consumer_cancel
    \/ finalize_chain
    \/ finalize_provider

Spec == Init /\ [][Next]_vars

\* The event loop runs every scheduled aclose().
FairSpec == Spec /\ WF_vars(finalize_chain) /\ WF_vars(finalize_provider)

TypeOK ==
    /\ pc \in {"idle", "returned", "raised", "awaiting", "fragment", "sentinel", "json",
               "error", "done", "aborted"}
    /\ provState \in {"none", "running", "suspended", "done", "raised", "released", "closed"}
    /\ chainState \in {"none", "running", "suspended", "done", "raised", "released", "closed"}
    /\ wrapState \in {"none", "running", "suspended", "done", "raised", "closed"}
    /\ abort \in {"", "closed", "cancelled", "provider_error", "retrieval_error"}
    /\ Len(provided) <= MaxFrags

----------------------------------------------------------------------------
(* Properties *)

Retrieved == pc /= "idle" /\ Len(call.full_source_content) = 0
Streamed == pc /= "idle" /\ call.op = "stream_response"
Balanced == Len(call.selected_sources) >= 1 /\ Len(call.selected_sources) <= 5

\* positions of results at which a source name appears for the first time
FirstSeen(docs) ==
    {i \in DOMAIN docs : \A j \in 1..(i - 1) : docs[j].source_name /= docs[i].source_name}

\* C1: the citation map of retrieve_context has one entry per distinct
\* source name of the results, keyed 1..K in first-seen order, and each
\* entry's id is its key.
C1_CitationIdsFirstSeen ==
    Retrieved =>
        LET first == FirstSeen(results)
            K == Cardinality({results[i].source_name : i \in DOMAIN results})
        IN /\ DOMAIN citation_info = 1..K
           /\ \A cid \in DOMAIN citation_info : citation_info[cid].id = cid
           /\ \A i \in first :
                citation_info[Cardinality({j \in first : j <= i})].source_name
                    = results[i].source_name

\* a source seen again after another one, and an id that differs from rank by name
C1_Witness ==
    /\ pc = "returned"
    /\ Cardinality(DOMAIN citation_info) >= 3
    /\ \E i, j, k \in DOMAIN results :
        /\ i < j /\ j < k
        /\ results[i].source_name = results[k].source_name
        /\ results[i].source_name /= results[j].source_name
    /\ citation_info[1].source_name /= 1

\* C2: a response of stream_response holds at most one CitationInfo per
\* distinct source name, with ids 1..K without gaps, on both paths.
C2_OneCitationPerSource ==
    Streamed =>
        /\ \A c1, c2 \in DOMAIN citation_info :
            citation_info[c1].source_name = citation_info[c2].source_name => c1 = c2
        /\ DOMAIN citation_info = 1..Cardinality(DOMAIN citation_info)

\* C3: balanced mode exactly for 1..5 selected sources, with one search
\* per entry filtered to (notebook AND that source); one search otherwise.
C3_ModeByCardinality ==
    Retrieved =>
        LET sel == call.selected_sources
        IN IF Len(sel) >= 1 /\ Len(sel) <= 5
           THEN /\ Len(searches) = Len(sel)
                /\ \A i \in DOMAIN sel :
                    searches[i].filter = [op |-> "eq", notebook_id |-> call.notebook_id,
                                          names |-> {sel[i]}]
           ELSE /\ Len(searches) = 1
                /\ searches[1].filter.notebook_id = call.notebook_id
                /\ searches[1].filter.op = IF Len(sel) = 0 THEN "notebook" ELSE "in"

C3_Witness ==
    /\ pc = "returned"
    /\ Len(call.selected_sources) = 5
    /\ Len(searches) = 5
    /\ Len(results) > 0

\* number of results the searches before the i-th one returned
RECURSIVE ReturnedBefore(_)
ReturnedBefore(i) == IF i <= 1 THEN 0 ELSE ReturnedBefore(i - 1) + searches[i - 1].n

StoredFor(nb, s) == {d \in index : d.notebook_id = nb /\ d.source_name = s}

\* C4: in balanced mode every search asks for max(3, floor(n_results/S)+1)
\* results, and a search that succeeds contributes min(k, stored chunks of
\* that source in the notebook) chunks to the result.
C4_PerSourceCount ==
    (Retrieved /\ Balanced /\ call.n_results >= 1) =>
        LET sel == call.selected_sources
            k == Max(3, (call.n_results \div Len(sel)) + 1)
        IN /\ Len(searches) = Len(sel)
           /\ \A i \in DOMAIN searches :
                /\ searches[i].k = k
                /\ searches[i].ok =>
                    /\ searches[i].n
                         = Min(k, Cardinality(StoredFor(call.notebook_id, sel[i])))
                    /\ \A p \in 1..searches[i].n :
                         results[ReturnedBefore(i) + p] \in StoredFor(call.notebook_id, sel[i])
                    /\ \A p1, p2 \in 1..searches[i].n :
                         results[ReturnedBefore(i) + p1] = results[ReturnedBefore(i) + p2]
                            => p1 = p2
           /\ Len(results) = ReturnedBefore(Len(searches) + 1)

\* one source cut to k, another with fewer than k stored
C4_Witness ==
    /\ pc = "returned"
    /\ Balanced
    /\ \E i, j \in DOMAIN searches :
        /\ searches[i].ok /\ searches[i].n = searches[i].k
        /\ Cardinality(StoredFor(call.notebook_id, call.selected_sources[i])) > searches[i].k
        /\ searches[j].ok /\ searches[j].n > 0 /\ searches[j].n < searches[j].k

\* what the searches at positions i.. that did not raise return, in
\* selected order
RECURSIVE SucceededFrom(_)
SucceededFrom(i) ==
    IF i > Len(call.selected_sources) THEN <<>>
    ELSE (IF i \in failed THEN <<>>
          ELSE similarity_search(index, call.query,
                                 Max(3, (call.n_results \div Len(call.selected_sources)) + 1),
                                 [op |-> "eq", notebook_id |-> call.notebook_id,
                                  names |-> {call.selected_sources[i]}]))
         \o SucceededFrom(i + 1)

\* the selected sources all of whose searches raised
FailedSources ==
    {s \in SourceNames :
        /\ \E i \in DOMAIN call.selected_sources : call.selected_sources[i] = s
        /\ \A i \in DOMAIN call.selected_sources : call.selected_sources[i] = s => i \in failed}

\* C5: in balanced mode retrieve_context does not raise when searches
\* raise; it returns the context and citations of exactly the chunks of
\* the searches that succeeded, in selected order, and a failed source has
\* no chunk and no citation entry.
C5_PartialResults ==
    (Retrieved /\ Balanced /\ failed /= {}) =>
        /\ pc /= "raised"
        /\ abort /= "retrieval_error"
        /\ results = SucceededFrom(1)
        /\ Len(context) = Len(results)
        /\ \A j \in DOMAIN results :
            /\ context[j].text = results[j].page_content
            /\ context[j].source_name = results[j].source_name
        /\ {citation_info[c].source_name : c \in DOMAIN citation_info}
             = {results[j].source_name : j \in DOMAIN results}
        /\ \A s \in FailedSources :
            /\ \A j \in DOMAIN results : results[j].source_name /= s
            /\ \A c \in DOMAIN citation_info : citation_info[c].source_name /= s

\* the first and the last search raise, one in between returns chunks
C5_Witness ==
    /\ pc = "returned"
    /\ Balanced
    /\ Len(call.selected_sources) >= 3
    /\ 1 \in failed
    /\ Len(call.selected_sources) \in failed
    /\ Len(results) > 0
    /\ StoredFor(call.notebook_id, call.selected_sources[1]) /= {}

\* C6: with a non-empty full_source_content of N sources no search is
\* made, the i-th source gets citation id i with the single sentinel
\* excerpt, and the i-th context block holds its whole content.
C6_FullContext ==
    (Streamed /\ Len(call.full_source_content) > 0) =>
        LET full == call.full_source_content
        IN /\ searches = <<>>
           /\ results = <<>>
           /\ abort /= "retrieval_error"
           /\ DOMAIN citation_info = 1..Len(full)
           /\ Len(context) = Len(full)
           /\ \A i \in 1..Len(full) :
                /\ citation_info[i] = [id |-> i, source_name |-> full[i].name,
                                       excerpts |-> << <<"(Full document context used)">> >>]
                /\ context[i] = [cid |-> i, source_name |-> full[i].name,
                                 text |-> full[i].content]

\* two sources, the second longer than an excerpt
C6_Witness ==
    /\ Streamed
    /\ Len(call.full_source_content) = 2
    /\ call.full_source_content[1].name /= call.full_source_content[2].name
    /\ Len(context) = 2
    /\ Len(context[2].text) > 300
    /\ pc = "done"

\* the r-th position of results that holds a chunk of source s
NthOf(s, r) ==
    CHOOSE j \in DOMAIN results :
        /\ results[j].source_name = s
        /\ Cardinality({i \in 1..j : results[i].source_name = s}) = r

\* C7: one excerpt per retrieved chunk, in result order: the chunk itself
\* up to 300 characters, its first 300 characters and "..." (303
\* characters) beyond; the context block carries the whole chunk.
C7_ExcerptTruncation ==
    Retrieved =>
        /\ \A c \in DOMAIN citation_info :
            LET s == citation_info[c].source_name
                excerpts == citation_info[c].excerpts
            IN /\ Len(excerpts)
                    = Cardinality({j \in DOMAIN results : results[j].source_name = s})
               /\ \A r \in DOMAIN excerpts :
                    LET text == results[NthOf(s, r)].page_content
                    IN IF Len(text) <= 300
                       THEN excerpts[r] = text
                       ELSE /\ excerpts[r] = SubSeq(text, 1, 300) \o <<".", ".", ".">>
                            /\ Len(excerpts[r]) = 303
        /\ Len(context) = Len(results)
        /\ \A j \in DOMAIN results : context[j].text = results[j].page_content

\* chunks of 310, 300 and 301 characters in one result
C7_Witness ==
    /\ pc = "returned"
    /\ \E i, j, k \in DOMAIN results :
        /\ Len(results[i].page_content) = 310
        /\ Len(results[j].page_content) = 300
        /\ Len(results[k].page_content) = 301
    /\ \E c \in DOMAIN citation_info :
        \E r1, r2 \in DOMAIN citation_info[c].excerpts :
            /\ Len(citation_info[c].excerpts[r1]) = 303
            /\ Len(citation_info[c].excerpts[r2]) = 300

\* the provider's fragments as the stream carries them
ProvidedFragments ==
    [i \in 1..Len(provided) |-> [kind |-> "text", text |-> provided[i], data |-> <<>>]]

\* the JSON object keyed by citation id as string
IsCitationJson(fragment) ==
    /\ fragment.kind = "json"
    /\ DOMAIN fragment.data = {ToString(c) : c \in DOMAIN citation_info}
    /\ \A c \in DOMAIN citation_info :
        fragment.data[ToString(c)]
            = [name |-> citation_info[c].source_name,
               excerpts |-> citation_info[c].excerpts]

\* C8: the output of stream_response is the provider's fragments,
\* unchanged and in order; only after the provider's last fragment, and
\* only when there are citations, come the sentinel and then the citation
\* JSON, and nothing after it.
C8_FooterAfterStream ==
    Streamed =>
        /\ \A i \in DOMAIN chainOut :
            /\ i <= Len(provided) => chainOut[i] = ProvidedFragments[i]
            /\ chainOut[i].kind \in {"sentinel", "json"} =>
                i > Len(provided) /\ provState = "done"
        /\ (pc = "done" /\ abort = "") =>
            IF DOMAIN citation_info /= {}
            THEN /\ Len(chainOut) = Len(provided) + 2
                 /\ SubSeq(chainOut, 1, Len(provided)) = ProvidedFragments
                 /\ chainOut[Len(provided) + 1].kind = "sentinel"
                 /\ chainOut[Len(provided) + 1].text = "\n\n---CITATIONS---\n"
                 /\ IsCitationJson(chainOut[Len(provided) + 2])
            ELSE chainOut = ProvidedFragments

\* a completed stream of two different fragments with two citations
C8_Witness ==
    /\ Streamed
    /\ pc = "done"
    /\ abort = ""
    /\ Len(provided) >= 2
    /\ provided[1] /= provided[2]
    /\ Cardinality(DOMAIN citation_info) >= 2
    /\ Len(chainOut) = Len(provided) + 2
    /\ chainOut[Len(chainOut)].kind = "json"

\* a completed stream without citations ends with the provider's fragments
C8_WitnessNoCitations ==
    /\ Streamed /\ pc = "done" /\ abort = ""
    /\ DOMAIN citation_info = {}
    /\ Len(provided) >= 1

AbortedEarly == abort \in {"closed", "cancelled", "provider_error"}
NoFooter == \A i \in DOMAIN out : out[i].kind \notin {"sentinel", "json"}
NoChainFooter == \A i \in DOMAIN chainOut : chainOut[i].kind \notin {"sentinel", "json"}
ProviderClosed == provState \in {"closed", "raised"}

\* C9: when the stream is aborted before the provider finished (closed
\* by the consumer between fragments, cancelled, or the provider call
\* raised), the sentinel and the citation JSON are never emitted and the
\* provider generator ends up closed.
C9_AbortedNoFooter ==
    /\ [](AbortedEarly => (NoFooter /\ NoChainFooter))
    /\ [](AbortedEarly => <>ProviderClosed)

\* closed by the consumer after two fragments, citations pending, the
\* provider generator closed by the event loop
C9_Witness ==
    /\ abort = "closed"
    /\ Len(provided) >= 2
    /\ DOMAIN citation_info /= {}
    /\ provState = "closed"
    /\ out = ProvidedFragments

\* C10: an exception of retrieval or of the provider stream never reaches
\* the consumer of stream_chat_response: it gets the fragments produced so
\* far, then the one fragment "Error generating response: ...", and the
\* stream ends.
C10_ErrorFragment ==
    (Streamed /\ abort \in {"retrieval_error", "provider_error"}) =>
        /\ raised = ""
        /\ wrapState \in {"suspended", "done", "closed"}
        /\ pc \in {"error", "done", "aborted"}
        /\ Len(out) = Len(provided) + 1
        /\ SubSeq(out, 1, Len(provided)) = ProvidedFragments
        /\ out[Len(out)].kind = "error"
        /\ pc = "done" => wrapState = "done"

\* the provider raises after two fragments and the stream has ended
C10_Witness ==
    /\ abort = "provider_error"
    /\ Len(provided) >= 2
    /\ pc = "done"
    /\ wrapState = "done"
    /\ out[Len(out)].kind = "error"

\* the global search of retrieval raises before any fragment
C10_WitnessRetrieval ==
    /\ abort = "retrieval_error"
    /\ pc = "done"
    /\ Len(out) = 1

----------------------------------------------------------------------------
(* C11: the retrieval query of stream_response *)

\* positions of the user messages of a list
UserPositions(messages) == {i \in 1..Len(messages) : messages[i].role = "user"}

\* the content of the latest message whose role is user
LatestUserContent(messages) ==
    LET last == CHOOSE i \in UserPositions(messages) :
                    \A j \in UserPositions(messages) : j <= i
    IN messages[last].content

\* C11: whenever stream_response retrieves (no full_source_content), the
\* query it searches with is the content of the latest user message of the
\* list.  Violated: the code takes the last message whatever its role.
C11_QueryIsLatestUserMessage ==
    (call.op = "stream_response" /\ Len(call.full_source_content) = 0
        /\ UserPositions(call.messages) /= {})
    => call.query = LatestUserContent(call.messages)

----------------------------------------------------------------------------
(* The provider registry as a state machine: one action per operation of
   ProviderRegistry, and the health check of one provider as the
   /providers/health handler runs it. *)

chainVars == <<index, history, pc, call, failed, retrievalVars, raised, streamVars,
               handlerVars, embeddingVars, providerVars, gemini>>

\* the registry has served a call with outcome o
Served(op, provider_name, model_name, embedding_provider, o) ==
    /\ calls < MaxCalls
    /\ calls' = calls + 1
    /\ registry' = o.reg
    /\ regCall' = [op |-> op, provider_name |-> provider_name, model_name |-> model_name,
                   embedding_provider |-> embedding_provider, raised |-> o.raised,
                   ret |-> o.ret]

get_provider ==
    /\ \E name \in RequestedNames :
        Served("get_provider", name, None, "", GetProvider(registry, environ, name))
    /\ UNCHANGED <<chainVars, environ, health>>

set_chat_provider ==
    /\ \E provider_name \in RequestedNames, model_name \in ModelNames :
        Served("set_chat_provider", provider_name, model_name, "",
               SetChatProvider(registry, environ, provider_name, model_name))
    /\ UNCHANGED <<chainVars, environ, health>>

set_embedding_provider ==
    /\ \E provider_name \in RequestedNames, model_name \in ModelNames :
        Served("set_embedding_provider", "", model_name, provider_name,
               SetEmbeddingProvider(registry, environ, provider_name, model_name))
    /\ UNCHANGED <<chainVars, environ, health>>

list_providers ==
    /\ Served("list_providers", "", None, "", ListProviders(registry, environ))
    /\ UNCHANGED <<chainVars, environ, health>>

configure_from_settings ==
    /\ \E settings \in SettingsChoices :
        Served("configure_from_settings", settings.chat_provider, None,
               settings.embedding_provider,
               ConfigureFromSettings(registry, environ, settings))
    /\ UNCHANGED <<chainVars, environ, health>>

\* provider = registry.get_provider(provider_name)
\* results[provider_name] = await provider.health_check()
health_check ==
    /\ \E provider_name \in PROVIDERS, outcome \in BackendOutcomes :
        LET g == GetProvider(registry, environ, provider_name)
        IN /\ Served("health_check", provider_name, None, "", g)
           /\ health' = HealthCheck(g.reg.objects[provider_name], outcome)
    /\ UNCHANGED <<chainVars, environ>>

RegistryInit ==
    /\ Constructed
    /\ environ \in Environs

RegistryNext ==
    \/ get_provider
    \/ set_chat_provider
    \/ set_embedding_provider
    \/ list_providers
    \/ configure_from_settings
    \/ health_check

RegistrySpec == RegistryInit /\ [][RegistryNext]_vars

\* the adapter instance of a registered name (0 when there is none)
InstanceOf(reg, name) == reg.instances[name]
Created(reg) == {n \in PROVIDERS : InstanceOf(reg, n) /= 0}
ProviderOf(reg, name) == reg.objects[name]

----------------------------------------------------------------------------
(* C12: set_embedding_provider validates before it assigns *)

\* a name set_embedding_provider must refuse
Refused(name) == name \notin PROVIDERS \/ ~supports_embeddings(name)

\* C12: a set_embedding_provider call raises exactly when the name is
\* unknown or the provider has supports_embeddings = false; when it raises,
\* the active embedding provider name, the registry's embedding model and
\* the embedding model of every provider are as before the call (an
\* instance the call created has the model of its construction); when it
\* does not raise, the name and the model are the requested ones.
C12_SetEmbeddingProviderValidates ==
    [][regCall'.op = "set_embedding_provider" =>
        /\ (regCall'.raised /= "") <=> Refused(regCall'.embedding_provider)
        /\ Refused(regCall'.embedding_provider) =>
            /\ registry'.embedding_provider_name = registry.embedding_provider_name
            /\ registry'.embedding_model = registry.embedding_model
            /\ \A n \in Created(registry') :
                ProviderOf(registry', n).embedding_model
                    = IF n \in Created(registry)
                      THEN ProviderOf(registry, n).embedding_model
                      ELSE DEFAULT_EMBEDDING_MODEL(n)
        /\ ~Refused(regCall'.embedding_provider) =>
            /\ registry'.embedding_provider_name = regCall'.embedding_provider
            /\ registry'.embedding_model = regCall'.model_name
            /\ Truthy(regCall'.model_name) =>
                ProviderOf(registry', regCall'.embedding_provider).embedding_model
                    = regCall'.model_name
    ]_vars

\* anthropic was refused while openai with model m1 was active
C12_Witness ==
    /\ regCall.op = "set_embedding_provider"
    /\ regCall.embedding_provider = "anthropic"
    /\ regCall.raised = "ValueError"
    /\ registry.embedding_provider_name = "openai"
    /\ registry.embedding_model = "m1"
    /\ ProviderOf(registry, "openai").embedding_model = "m1"

----------------------------------------------------------------------------
(* C13: rejection of unknown and unsupported providers *)

\* the operations of the registry that select a provider
Selecting == {"set_chat_provider", "set_embedding_provider", "configure_from_settings"}

\* the chat and the embedding provider a call asks for ("" when it asks
\* for none); a settings dict without the key asks for the default
AskedChat(c) ==
    IF c.op = "configure_from_settings" THEN GetOrOllama(c.provider_name)
    ELSE c.provider_name
AskedEmbedding(c) ==
    IF c.op = "configure_from_settings" THEN GetOrOllama(c.embedding_provider)
    ELSE c.embedding_provider

\* C13: a selecting call that asks for an unknown chat provider, or for an
\* embedding provider that is unknown or has no embedding support, raises;
\* and after the call each active provider is the one asked for or the one
\* active before.  Violated by configure_from_settings, which answers a
\* refused embedding provider by selecting "ollama".
C13_RejectsAndNeverSubstitutes ==
    [][regCall'.op \in Selecting =>
        /\ (AskedChat(regCall') /= "" /\ AskedChat(regCall') \notin PROVIDERS)
            => regCall'.raised /= ""
        /\ (AskedEmbedding(regCall') /= "" /\ Refused(AskedEmbedding(regCall')))
            => regCall'.raised /= ""
        /\ registry'.chat_provider_name
            \in {AskedChat(regCall'), registry.chat_provider_name}
        /\ registry'.embedding_provider_name
            \in {AskedEmbedding(regCall'), registry.embedding_provider_name}
    ]_vars

----------------------------------------------------------------------------
(* C14: one adapter instance per provider name *)

\* C14: a name that has an instance keeps that instance in every step (no
\* second instance is ever built for a name); a name gets its instance
\* only from a call, with the fields of its class; get_provider returns
\* the instance the registry holds for the name, and leaves the fields of
\* every existing instance as they were.
C14_SingleInstance ==
    [][/\ \A n \in PROVIDERS :
            /\ InstanceOf(registry', n) \in {0, 1}
            /\ InstanceOf(registry, n) /= 0 =>
                InstanceOf(registry', n) = InstanceOf(registry, n)
            /\ InstanceOf(registry', n) /= 0 => ProviderOf(registry', n).cls = n
       /\ (regCall'.op \in {"get_provider", "health_check"} /\ regCall'.raised = "")
            => /\ regCall'.ret = InstanceOf(registry', regCall'.provider_name)
               /\ regCall'.ret /= 0
       /\ regCall'.op = "get_provider" =>
            \A n \in Created(registry) : ProviderOf(registry', n) = ProviderOf(registry, n)
    ]_vars

\* configure_from_settings has set the key of the existing gemini instance
\* in place: built by a constructor, it would hold the environment's key
C14_Witness ==
    /\ environ = KeysEnviron
    /\ regCall.op = "configure_from_settings"
    /\ InstanceOf(registry, "gemini") = 1
    /\ ProviderOf(registry, "gemini").api_key = ""

----------------------------------------------------------------------------
(* C15: health checks *)

KeyBased == {"openai", "gemini", "anthropic"}

\* C15: a health check leaves without raising, with a dict whose status is
\* "ok" or "error" and which has a message; an "error" dict has a code;
\* and a key-based adapter without API key returns the error without a
\* call of its backend.
C15_HealthCheckResult ==
    regCall.op = "health_check" =>
        /\ health.raised = ""
        /\ health.result.status \in {"ok", "error"}
        /\ "message" \in DOMAIN health.result
        /\ health.result.status = "error" =>
            /\ "code" \in DOMAIN health.result
            /\ health.result.code /= ""
        /\ (regCall.provider_name \in KeyBased
                /\ ~Truthy(ProviderOf(registry, regCall.provider_name).api_key))
            => /\ health.result.status = "error"
               /\ ~health.called

\* the openai adapter, its key unset, reports the missing key without a
\* backend call
C15_Witness ==
    /\ regCall.op = "health_check"
    /\ regCall.provider_name = "openai"
    /\ ProviderOf(registry, "openai").api_key = None
    /\ health.result.status = "error"
    /\ health.result.code = "missing_api_key"
    /\ ~health.called

\* the gemini adapter, its key set to the empty string by
\* configure_from_settings, reports the missing key
C15_WitnessEmptyKey ==
    /\ regCall.op = "health_check"
    /\ regCall.provider_name = "gemini"
    /\ ProviderOf(registry, "gemini").api_key = ""
    /\ health.result.code = "missing_api_key"

----------------------------------------------------------------------------
(* Ingestion and deletion: RAGChain.add_documents and delete_source,
   rag.process_document with its legacy fallback, and
   rag.delete_source_documents. *)

\* rag.py:155-156  chunk_size = 500, overlap = 50 (rag_chain.py:72-73)
chunk_size == 500
overlap == 50

\* content[a:b]
Slice(content, a, b) == SubSeq(content, a + 1, Min(b, Len(content)))

\* range(i, n, step)
RECURSIVE Range(_, _, _)
Range(i, n, step) == IF i >= n THEN <<>> ELSE <<i>> \o Range(i + step, n, step)

\* the window loop with a step that leaves a gap between the windows
LegacyChunksGap(content) ==
    LET starts == Range(0, Len(content), chunk_size + overlap)
    IN [k \in 1..Len(starts) |-> Slice(content, starts[k], starts[k] + chunk_size)]

\* for i in range(0, len(content), chunk_size - overlap):
\*     chunks.append(content[i:i + chunk_size])
LegacyChunks(content) ==
    LET starts == Range(0, Len(content), chunk_size - overlap)
    IN [k \in 1..Len(starts) |-> Slice(content, starts[k], starts[k] + chunk_size)]

\* RecursiveCharacterTextSplitter(chunk_size=500, chunk_overlap=50)
\* .split_text on a text without separators: the characters are merged into
\* windows of chunk_size that start chunk_size - chunk_overlap apart, the
\* last one ending with the text.
RECURSIVE MergeSplits(_, _)
MergeSplits(content, i) ==
    IF i + chunk_size >= Len(content)
    THEN <<Slice(content, i, i + chunk_size)>>
    ELSE <<Slice(content, i, i + chunk_size)>>
            \o MergeSplits(content, i + chunk_size - overlap)

split_text(content) == IF Len(content) = 0 THEN <<>> ELSE MergeSplits(content, 0)

\* f"{notebook_id}_{source_name}_{i}"
\* The text of a source name. The model names sources by integers: a name
\* below 10 is a file name without "_", a name of two digits d1 d2 is the
\* file name "d1_d2", which contains the separator of the chunk ID.
NameText(source_name) ==
    IF source_name < 10 THEN ToString(source_name)
    ELSE ToString(source_name \div 10) \o "_" \o ToString(source_name % 10)

\* f"{notebook_id}_{source_name}_{i}"
ChunkId(notebook_id, source_name, i) ==
    notebook_id \o "_" \o NameText(source_name) \o "_" \o ToString(i)
IdOf(doc) == ChunkId(doc.notebook_id, doc.source_name, doc.chunk_index)

\* the Document of chunk i (chunks are numbered from 0)
ChunkDocument(notebook_id, source_name, i, chunk) ==
    [notebook_id |-> notebook_id, source_name |-> source_name, chunk_index |-> i,
     page_content |-> chunk]

\* Chroma's upsert of one record: the record of the same id is replaced
Upsert(idx, doc) == {d \in idx : IdOf(d) /= IdOf(doc)} \cup {doc}

\* Chroma's add of one record: an id the collection holds is left as it is
Add(idx, doc) == IF \E d \in idx : IdOf(d) = IdOf(doc) THEN idx ELSE idx \cup {doc}

RECURSIVE UpsertAll(_, _, _, _, _)
UpsertAll(idx, notebook_id, source_name, chunks, i) ==
    IF i >= Len(chunks) THEN idx
    ELSE UpsertAll(Upsert(idx, ChunkDocument(notebook_id, source_name, i, chunks[i + 1])),
                   notebook_id, source_name, chunks, i + 1)

\* chunks of the source the index holds
ChunksOf(idx, notebook_id, source_name) ==
    {d \in idx : d.notebook_id = notebook_id /\ d.source_name = source_name}

\* add_documents numbering its chunks after those the index holds
AddDocumentsAppend(idx, notebook_id, source_name, content) ==
    LET chunks == split_text(content)
        base == Cardinality(ChunksOf(idx, notebook_id, source_name))
    IN idx \cup {ChunkDocument(notebook_id, source_name, base + k - 1, chunks[k]) :
                    k \in 1..Len(chunks)}

\* add_documents removing the chunks of the source before it writes
AddDocumentsReplacing(idx, notebook_id, source_name, content) ==
    UpsertAll(idx \ ChunksOf(idx, notebook_id, source_name), notebook_id, source_name,
              split_text(content), 0)

\* RAGChain.add_documents: vectorstore.add_documents(documents, ids=ids)
AddDocuments(idx, notebook_id, source_name, content) ==
    UpsertAll(idx, notebook_id, source_name, split_text(content), 0)

\* _legacy_process_document: a chunk is added when get_embeddings returned
\* a vector for it (embedded holds the positions of those chunks)
RECURSIVE LegacyAddAll(_, _, _, _, _, _)
LegacyAddAll(idx, notebook_id, source_name, chunks, i, embedded) ==
    IF i >= Len(chunks) THEN idx
    ELSE LegacyAddAll(
            IF i \in embedded
            THEN Add(idx, ChunkDocument(notebook_id, source_name, i, chunks[i + 1]))
            ELSE idx,
            notebook_id, source_name, chunks, i + 1, embedded)

LegacyProcessDocument(idx, notebook_id, source_name, content, embedded) ==
    LegacyAddAll(idx, notebook_id, source_name, LegacyChunks(content), 0, embedded)

\* process_document: the chain, the legacy path when the chain's
\* vectorstore.add_documents raised, and no write when the legacy path
\* raised too (collection.add failing on its first call)
ProcessDocument(idx, notebook_id, source_name, content, path, embedded) ==
    CASE path = "chain" -> AddDocuments(idx, notebook_id, source_name, content)
      [] path = "legacy" ->
            LegacyProcessDocument(idx, notebook_id, source_name, content, embedded)
      [] path = "failed" -> idx

\* delete removing every chunk that has the source name
DeleteSourceByName(idx, notebook_id, source_name) ==
    {d \in idx : d.source_name /= source_name}

\* collection.delete(where={"$and": [{"notebook_id": ...}, {"source_name": ...}]})
DeleteSource(idx, notebook_id, source_name) ==
    {d \in idx : ~(d.notebook_id = notebook_id /\ d.source_name = source_name)}

\* delete_source_documents: the chain's delete, the legacy delete when the
\* chain raised, and nothing but a log line when both raised
DeleteSourceDocuments(idx, notebook_id, source_name, path) ==
    IF path = "failed" THEN idx ELSE DeleteSource(idx, notebook_id, source_name)

\* ingestion calls in one run
MaxOps == 2

\* sources that are ingested and deleted; notebook n2 holds no chunk of
\* source 3
IngestNames == {1, 3}

\* contents: empty, shorter than a window, two windows of which the second
\* ends in the overlap region, and three windows
Contents ==
    {Text(1, 0), Text(1, chunk_size - 200), Text(2, 2 * chunk_size - overlap),
     Text(1, 2 * chunk_size - overlap + 1)}

\* the chunks of a legacy run whose embedding succeeded: all, or all but
\* the first
EmbeddedChoices(content) ==
    {0..(Len(LegacyChunks(content)) - 1), 1..(Len(LegacyChunks(content)) - 1)}

\* a call of the history
IngestCall(op, notebook_id, source_name, content, path, chunks, embedded) ==
    [op |-> op, notebook_id |-> notebook_id, source_name |-> source_name,
     content |-> content, path |-> path, chunks |-> chunks, embedded |-> embedded]

\* the chunks a path splits a content into
ChunksBy(path, content) ==
    IF path = "chain" THEN split_text(content) ELSE LegacyChunks(content)

\* what a call of rag.process_document does to the index, the chain and
\* the registry: the chain embeds with the function its vector store
\* holds, the legacy path with the one get_embeddings takes from the
\* registry
ProcessDocumentCall(notebook_id, source_name, content, path, embedded) ==
    LET v == GetVectorstore(vectorstore, registry, environ)
        a == ActiveEmbeddings(v.reg, environ)
    IN /\ index' = ProcessDocument(index, notebook_id, source_name, content, path,
                                   embedded)
       /\ history' = Append(history,
               IngestCall("process_document", notebook_id, source_name, content, path,
                          ChunksBy(path, content), embedded))
       /\ vectorstore' = v.vectorstore
       /\ embedded_by' = IF path = "chain" THEN v.vectorstore ELSE a.embeddings
       /\ registry' = IF path = "chain" THEN v.reg ELSE a.reg

process_document ==
    /\ Len(history) < MaxOps
    /\ \E notebook_id \in Notebooks, source_name \in IngestNames, content \in Contents,
          path \in {"chain", "legacy"} :
        \E embedded \in (IF path = "chain" THEN {{}} ELSE EmbeddedChoices(content)) :
            ProcessDocumentCall(notebook_id, source_name, content, path, embedded)
    /\ UNCHANGED <<environ, regCall, health, calls, pc, call, failed, retrievalVars,
                   raised, streamVars, handlerVars, providerVars, gemini>>

\* what a call of rag.delete_source_documents does: the chain's
\* delete_source takes the vector store before it deletes
DeleteSourceDocumentsCall(notebook_id, source_name, path) ==
    LET v == GetVectorstore(vectorstore, registry, environ)
    IN /\ index' = DeleteSourceDocuments(index, notebook_id, source_name, path)
       /\ history' = Append(history,
               IngestCall("delete_source_documents", notebook_id, source_name, <<>>, path,
                          <<>>, {}))
       /\ vectorstore' = v.vectorstore
       /\ registry' = v.reg
       /\ UNCHANGED embedded_by

delete_source_documents ==
    /\ Len(history) < MaxOps
    /\ \E notebook_id \in Notebooks, source_name \in IngestNames,
          path \in {"chain", "legacy", "failed"} :
        DeleteSourceDocumentsCall(notebook_id, source_name, path)
    /\ UNCHANGED <<environ, regCall, health, calls, pc, call, failed, retrievalVars,
                   raised, streamVars, handlerVars, providerVars, gemini>>

IngestNext ==
    \/ process_document
    \/ delete_source_documents

IngestSpec == Init /\ [][IngestNext]_vars

----------------------------------------------------------------------------
(* C16..C18: re-ingestion and deletion *)

\* the call last served and the one before it
LastCall == history[Len(history)]
IsChainAdd(c) == c.op = "process_document" /\ c.path = "chain"
IsDelete(c) == c.op = "delete_source_documents" /\ c.path /= "failed"
SameTarget(c, d) == c.notebook_id = d.notebook_id /\ c.source_name = d.source_name

\* the documents of a call's chunks and the ids add_documents gives them
DocumentsOf(c) ==
    {ChunkDocument(c.notebook_id, c.source_name, k - 1, c.chunks[k]) :
        k \in 1..Len(c.chunks)}
ExpectedIds(c) ==
    {ChunkId(c.notebook_id, c.source_name, i) : i \in 0..(Len(c.chunks) - 1)}

\* the ids under which an index holds the chunks of a call
WrittenIds(idx, c) == {IdOf(d) : d \in idx \cap DocumentsOf(c)}

\* the documents retrieve_context returns for a notebook and a selection,
\* with the n_results of the chat path
Returned(idx, notebook_id, q, selected_sources) ==
    LET r == RetrieveContext(idx, notebook_id, q, selected_sources, StreamNResults, {})
    IN {r.results[k] : k \in 1..Len(r.results)}

\* C16: when add_documents is served twice in a row with the same
\* notebook_id, source_name and content, both calls write the chunks under
\* the ids {notebook_id}_{source_name}_{i}, i = 0..k-1, and the index after
\* the second call is the index after the first.
C16_ReingestionIdempotent ==
    [][(/\ Len(history) >= 1
        /\ Len(history') = Len(history) + 1
        /\ IsChainAdd(LastCall)
        /\ LastCall' = LastCall)
       => /\ WrittenIds(index, LastCall) = ExpectedIds(LastCall)
          /\ WrittenIds(index', LastCall') = ExpectedIds(LastCall)
          /\ index' = index
    ]_vars

\* a content of three chunks was ingested twice
C16_Witness ==
    /\ Len(history) = 2
    /\ IsChainAdd(history[1])
    /\ history[2] = history[1]
    /\ Len(history[1].chunks) = 3
    /\ WrittenIds(index, history[1]) = {"n2_1_0", "n2_1_1", "n2_1_2"}

\* the chunks m..k-1 of the earlier call c, stale after the later call d
StaleDocuments(c, d) ==
    {ChunkDocument(c.notebook_id, c.source_name, i, c.chunks[i + 1]) :
        i \in Len(d.chunks)..(Len(c.chunks) - 1)}

\* C17: when add_documents with k chunks is followed, with no deletion in
\* between, by add_documents for the same source with m < k chunks, the
\* index holds the chunks 0..m-1 of the second content and the chunks
\* m..k-1 of the first, and a retrieve_context for the source returns the
\* stale ones; after a deletion of the source, the index holds for it the
\* chunks of the next add_documents and no other.
C17_StaleChunksRemain ==
    [][(/\ Len(history) >= 1
        /\ Len(history') = Len(history) + 1
        /\ IsChainAdd(LastCall')
        /\ SameTarget(LastCall, LastCall'))
       => /\ (IsChainAdd(LastCall) /\ Len(LastCall'.chunks) < Len(LastCall.chunks))
                => /\ DocumentsOf(LastCall') \subseteq index'
                   /\ StaleDocuments(LastCall, LastCall') \subseteq index'
                   /\ \A q \in Queries :
                        StaleDocuments(LastCall, LastCall')
                            \subseteq Returned(index', LastCall'.notebook_id, q,
                                               <<LastCall'.source_name>>)
          /\ IsDelete(LastCall)
                => ChunksOf(index', LastCall'.notebook_id, LastCall'.source_name)
                        = DocumentsOf(LastCall')
    ]_vars

\* three chunks were ingested for a source, then one: the chunks 1 and 2
\* of the first content are still in the index
C17_Witness ==
    /\ Len(history) = 2
    /\ IsChainAdd(history[1]) /\ IsChainAdd(history[2])
    /\ SameTarget(history[1], history[2])
    /\ Len(history[1].chunks) = 3
    /\ Len(history[2].chunks) = 1
    /\ Cardinality(StaleDocuments(history[1], history[2]) \cap index) = 2

\* selections a retrieval is asked with after a deletion
AfterDeleteSelections(s) == {<<>>, <<s>>, <<1, 3>>}

\* C18: a delete_source that is carried out removes from the index the
\* chunks that have the notebook_id and the source_name and no other: the
\* chunks of the name in another notebook and of other sources stay; and
\* no retrieve_context on the index it leaves returns a chunk of the source.
C18_DeleteSourceExact ==
    [][(Len(history') = Len(history) + 1 /\ IsDelete(LastCall'))
       => /\ index' = index \ ChunksOf(index, LastCall'.notebook_id, LastCall'.source_name)
          /\ \A d \in index :
                (d.notebook_id /= LastCall'.notebook_id
                    \/ d.source_name /= LastCall'.source_name) => d \in index'
          /\ \A nb \in Notebooks, q \in Queries,
                sel \in AfterDeleteSelections(LastCall'.source_name) :
                Returned(index', nb, q, sel)
                    \cap ChunksOf(index, LastCall'.notebook_id, LastCall'.source_name) = {}
    ]_vars

\* source 1 of notebook n1 was deleted; source 1 of n2 and source 3 of n1
\* are still there
C18_Witness ==
    /\ Len(history) = 1
    /\ IsDelete(history[1])
    /\ history[1].notebook_id = "n1" /\ history[1].source_name = 1
    /\ ChunksOf(index, "n1", 1) = {}
    /\ ChunksOf(index, "n2", 1) /= {}
    /\ ChunksOf(index, "n1", 3) /= {}
    /\ ChunksOf(Corpus, "n1", 1) /= {}

----------------------------------------------------------------------------
(* C19, C20: the fixed-window splitter *)

\* ceil(a / b)
CeilDiv(a, b) == (a + b - 1) \div b

\* C19: every content longer than one window is split into
\* ceil((len(content) - overlap) / (chunk_size - overlap)) chunks.
\* Violated by the legacy loop, which starts a window at every multiple of
\* the stride below len(content).
C19_ChunkCount ==
    \A k \in 1..Len(history) :
        (history[k].op = "process_document" /\ Len(history[k].content) > chunk_size)
        => Len(history[k].chunks)
            = CeilDiv(Len(history[k].content) - overlap, chunk_size - overlap)

\* position p of the content lies in window k, which holds its character
Covers(c, k, p) ==
    LET at == p - (k - 1) * (chunk_size - overlap)
    IN /\ at \in 1..Len(c.chunks[k])
       /\ c.chunks[k][at] = c.content[p]

\* C20: the chunks of the fixed-window loop have at most chunk_size
\* characters; chunk k is the window that starts k strides into the
\* content, so the chunks come in input order; every position of the
\* content lies in a chunk; and the chunks that are stored are stored
\* under chunk_index 0, 1, 2, ... in that order.
C20_WindowsCoverInput ==
    \A n \in 1..Len(history) :
        LET c == history[n]
        IN (c.op = "process_document" /\ c.path = "legacy")
           => /\ \A k \in 1..Len(c.chunks) :
                    /\ Len(c.chunks[k]) <= chunk_size
                    /\ Len(c.chunks[k]) >= 1
                    /\ c.chunks[k]
                        = Slice(c.content, (k - 1) * (chunk_size - overlap),
                                (k - 1) * (chunk_size - overlap) + chunk_size)
              /\ \A p \in 1..Len(c.content) : \E k \in 1..Len(c.chunks) : Covers(c, k, p)
              /\ n = Len(history) =>
                    \A i \in c.embedded :
                        \E d \in ChunksOf(index, c.notebook_id, c.source_name) :
                            d.chunk_index = i
              /\ (Len(history) = 1
                    /\ ChunksOf(Corpus, c.notebook_id, c.source_name) = {})
                    => ChunksOf(index, c.notebook_id, c.source_name)
                        = {d \in DocumentsOf(c) : d.chunk_index \in c.embedded}

\* the legacy path has split a content of three windows and stored its
\* chunks 0, 1, 2 for a source that had none
C20_Witness ==
    /\ Len(history) = 1
    /\ history[1].path = "legacy"
    /\ Len(history[1].content) > 2 * chunk_size - overlap
    /\ Len(history[1].chunks) = 3
    /\ ChunksOf(Corpus, history[1].notebook_id, history[1].source_name) = {}
    /\ ChunksOf(index, history[1].notebook_id, history[1].source_name)
        = DocumentsOf(history[1])


----------------------------------------------------------------------------
(* Retrieval scope *)

Names(selected_sources) == {selected_sources[i] : i \in DOMAIN selected_sources}

\* the stored chunks a retrieval of the call may not return
OutOfScope(doc) ==
    \/ doc.notebook_id /= call.notebook_id
    \/ /\ Len(call.selected_sources) > 0
       /\ doc.source_name \notin Names(call.selected_sources)

\* C23: every chunk retrieve_context returns, in balanced and in global
\* mode, is stored under the requested notebook_id and, when
\* selected_sources is non-empty, under a source_name that is a member of
\* selected_sources, whatever else the index holds.
C23_RetrievalScoped ==
    (Retrieved /\ raised = "") =>
        \A i \in DOMAIN results : ~OutOfScope(results[i])

\* A global-mode retrieval with selected sources returns chunks while the
\* index holds chunks of the same notebook under unselected names and
\* chunks of the other notebook under the selected names.
C23_Witness ==
    /\ Retrieved /\ raised = ""
    /\ call.op = "retrieve_context"
    /\ Len(call.selected_sources) > BalancedMax
    /\ Len(results) > 0
    /\ \E doc \in index :
        doc.notebook_id = call.notebook_id /\ OutOfScope(doc)
    /\ \E doc \in index :
        /\ doc.notebook_id /= call.notebook_id
        /\ doc.source_name \in Names(call.selected_sources)


----------------------------------------------------------------------------
(* Order of the context blocks in balanced mode *)

\* the first position at which selected_sources lists a name
FirstListing(selected_sources, name) ==
    CHOOSE p \in DOMAIN selected_sources :
        /\ selected_sources[p] = name
        /\ \A r \in 1..(p - 1) : selected_sources[r] /= name

\* the selected names that returned at least one chunk
ReturnedNames == {results[i].source_name : i \in DOMAIN results}

\* 1-based rank of a name among the selected sources that returned a chunk
RankOf(name) ==
    Cardinality({n \in ReturnedNames :
        FirstListing(call.selected_sources, n)
            <= FirstListing(call.selected_sources, name)})

\* C28: in balanced mode the context blocks follow the order of
\* selected_sources, the blocks of one source are contiguous, and the
\* citation ID of a source is its 1-based rank among the selected sources
\* that returned at least one chunk.
C28_GroupedBySource ==
    (Retrieved /\ Balanced /\ raised = "") =>
        /\ \A i, j \in DOMAIN results :
            i < j => FirstListing(call.selected_sources, results[i].source_name)
                        <= FirstListing(call.selected_sources, results[j].source_name)
        /\ \A i, j, k \in DOMAIN results :
            (i < j /\ j < k /\ results[i].source_name = results[k].source_name)
                => results[j].source_name = results[i].source_name
        /\ \A c \in DOMAIN citation_info : c = RankOf(citation_info[c].source_name)


----------------------------------------------------------------------------
(* Active providers of the registry *)

\* C25: in every reachable state of the registry, after successful and
\* failing calls alike, the active chat and embedding provider names are
\* registered names and the active embedding provider supports
\* embeddings, so get_chat_provider and get_embedding_provider do not
\* raise.
C25_ActiveProvidersValid ==
    /\ registry.chat_provider_name \in PROVIDERS
    /\ registry.embedding_provider_name \in PROVIDERS
    /\ supports_embeddings(registry.embedding_provider_name)
    /\ GetProvider(registry, environ, registry.chat_provider_name).raised = ""
    /\ GetProvider(registry, environ, registry.embedding_provider_name).raised = ""

\* A call has just failed on a registry whose active providers were both
\* changed from the default by earlier calls.
C25_Witness ==
    /\ regCall.raised /= ""
    /\ regCall.op \in {"set_chat_provider", "set_embedding_provider",
                       "configure_from_settings"}
    /\ registry.chat_provider_name /= "ollama"
    /\ registry.embedding_provider_name /= "ollama"


----------------------------------------------------------------------------
(* Request handlers of main.py *)

\* the first source of a record that has the name: what the positional
\* operator of {"sources.name": name}, {"$set": {"sources.$...": ...}}
\* updates
FirstNamed(sources, name) ==
    CHOOSE p \in DOMAIN sources :
        /\ sources[p].name = name
        /\ \A r \in 1..(p - 1) : sources[r].name /= name

\* {"$set": {"sources.$.status": "ready", "sources.$.content": content}}
SetReady(sources, name, content) ==
    IF \A p \in DOMAIN sources : sources[p].name /= name THEN sources
    ELSE [sources EXCEPT ![FirstNamed(sources, name)] = Source(name, "ready", content)]

\* {"$set": {"sources.$.status": "error", "sources.$.error": str(e)}}
SetError(sources, name) ==
    IF \A p \in DOMAIN sources : sources[p].name /= name THEN sources
    ELSE [sources EXCEPT ![FirstNamed(sources, name)].status = "error"]

\* {"$pull": {"sources": {"name": source_name}}}
Pull(sources, name) == SelectSeq(sources, LAMBDA x : x.name /= name)

\* what rag.process_document raises towards its caller: nothing when the
\* chain stored the chunks, nothing when the legacy path ran to its end,
\* the exception of the legacy path otherwise
ProcessDocumentRaises(path, content, embedded) ==
    IF path = "failed" THEN "Exception" ELSE ""

\* the deletes rag.delete_source_documents attempts, in order, each with
\* its filter and whether it succeeded
Attempt(by, notebook_id, source_name, ok) ==
    [by |-> by, notebook_id |-> notebook_id, source_name |-> source_name, ok |-> ok]
DeleteAttempts(notebook_id, source_name, path) ==
    CASE path = "chain" -> <<Attempt("chain", notebook_id, source_name, TRUE)>>
      [] path = "legacy" -> <<Attempt("chain", notebook_id, source_name, FALSE),
                              Attempt("legacy", notebook_id, source_name, TRUE)>>
      [] path = "failed" -> <<Attempt("chain", notebook_id, source_name, FALSE),
                              Attempt("legacy", notebook_id, source_name, FALSE)>>

\* what rag.delete_source_documents raises towards its caller
DeleteSourceDocumentsRaisesLast(path) == IF path = "failed" THEN "Exception" ELSE ""
DeleteSourceDocumentsRaises(path) == ""

\* the request a handler served
Handled(op, notebook_id, source_name, status, exc, attempts) ==
    [op |-> op, notebook_id |-> notebook_id, source_name |-> source_name,
     status |-> status, raised |-> exc, attempts |-> attempts]

\* the text load_document extracts from an uploaded file: none, one
\* window, three windows
FileContents == {Text(1, 0), Text(1, chunk_size - 200), Text(2, 2 * chunk_size - overlap)}

\* The background task of an upload: it runs for a source that upload_file
\* pushed with status "processing".
process_file_task ==
    /\ Len(history) < MaxOps
    /\ \E notebook_id \in Notebooks :
        \E p \in DOMAIN db[notebook_id], content \in FileContents,
           path \in {"chain", "legacy", "failed"} :
            \E embedded \in (IF path = "legacy" THEN EmbeddedChoices(content) ELSE {{}}) :
                LET filename == db[notebook_id][p].name
                    exc == ProcessDocumentRaises(path, content, embedded)
                IN /\ db[notebook_id][p].status = "processing"
                   /\ IF Len(content) = 0
                      THEN \* raise ValueError(f"No text extracted from {filename}")
                           /\ db' = [db EXCEPT ![notebook_id] = SetError(@, filename)]
                           /\ handled' = Handled("process_file_task", notebook_id,
                                                 filename, "error", "", <<>>)
                           \* before process_document is called
                           /\ path = "chain"
                           /\ UNCHANGED <<index, history, embeddingVars, registry>>
                      ELSE /\ ProcessDocumentCall(notebook_id, filename, content, path,
                                                  embedded)
                           /\ db' = [db EXCEPT ![notebook_id] =
                                        IF exc = "" THEN SetReady(@, filename, content)
                                        ELSE SetError(@, filename)]
                           /\ handled' = Handled("process_file_task", notebook_id,
                                                 filename,
                                                 IF exc = "" THEN "ready" ELSE "error",
                                                 exc, <<>>)
    /\ UNCHANGED <<environ, regCall, health, calls, pc, call, failed, retrievalVars,
                   raised, streamVars, providerVars, gemini>>

\* DELETE /notebooks/{notebook_id}/sources/{source_name}
delete_source ==
    /\ Len(history) < MaxOps
    /\ \E notebook_id \in Notebooks, source_name \in IngestNames,
          path \in {"chain", "legacy", "failed"} :
        LET exc == DeleteSourceDocumentsRaises(path)
        IN /\ db' = [db EXCEPT ![notebook_id] = Pull(@, source_name)]
           /\ DeleteSourceDocumentsCall(notebook_id, source_name, path)
           /\ handled' = Handled("delete_source", notebook_id, source_name,
                                 IF exc = "" THEN "ok" ELSE "", exc,
                                 DeleteAttempts(notebook_id, source_name, path))
    /\ UNCHANGED <<environ, regCall, health, calls, pc, call, failed, retrievalVars,
                   raised, streamVars, providerVars, gemini>>



----------------------------------------------------------------------------
(* Outcome of an ingestion whose embedding call failed *)

\* the last call of the history is the process_document call of the task
\* last handled
TaskIngested ==
    /\ handled.op = "process_file_task"
    /\ history /= <<>>
    /\ LastCall.op = "process_document"
    /\ LastCall.notebook_id = handled.notebook_id
    /\ LastCall.source_name = handled.source_name

\* the chain raised and, on the legacy path, get_embeddings returned no
\* vector for at least one chunk
EmbeddingFailed(c) ==
    /\ c.path = "legacy"
    /\ \E i \in 0..(Len(c.chunks) - 1) : i \notin c.embedded

\* C21: when the embedding call fails during the ingestion of a source,
\* process_document fails towards its caller, which marks the source
\* errored instead of ready.
C21_EmbeddingFailureReachesCaller ==
    (TaskIngested /\ EmbeddingFailed(LastCall)) =>
        /\ handled.raised /= ""
        /\ handled.status = "error"
        /\ \A p \in DOMAIN db[handled.notebook_id] :
            db[handled.notebook_id][p].name = handled.source_name
                => db[handled.notebook_id][p].status /= "ready"


----------------------------------------------------------------------------
(* Deleting a source whose index deletes fail *)

\* the step is a run of the delete-source handler
DeleteHandled == history' /= history /\ handled'.op = "delete_source"

AllFailed(attempts) == \A i \in DOMAIN attempts : ~attempts[i].ok

\* C30: delete_source_documents never raises: a failing chain delete is
\* followed by exactly one legacy delete with the same (notebook_id AND
\* source_name) filter, whose failure is swallowed too; when both fail the
\* call returns normally and the index is unchanged, the handler having
\* already removed the source from the notebook record.
C30_DeleteNeverRaises ==
    [][DeleteHandled =>
        LET a == handled'.attempts
        IN /\ handled'.raised = ""
           /\ handled'.status = "ok"
           /\ Len(a) >= 1
           /\ a[1].by = "chain"
           /\ a[1].ok => Len(a) = 1
           /\ ~a[1].ok => (Len(a) = 2 /\ a[2].by = "legacy")
           /\ \A i \in DOMAIN a : /\ a[i].notebook_id = handled'.notebook_id
                                  /\ a[i].source_name = handled'.source_name
           /\ AllFailed(a) => index' = index
           /\ \A p \in DOMAIN db'[handled'.notebook_id] :
                db'[handled'.notebook_id][p].name /= handled'.source_name]_vars

\* Both deletes failed for a source that was in the notebook record: the
\* handler answered, the record no longer lists the source and the index
\* still holds its chunks.
C30_Witness ==
    /\ handled.op = "delete_source"
    /\ handled.notebook_id = "n1" /\ handled.source_name = 1
    /\ Len(history) = 1
    /\ Len(handled.attempts) = 2 /\ AllFailed(handled.attempts)
    /\ handled.status = "ok"
    /\ Len(db["n1"]) = Len(InitialNotebooks["n1"]) - 1
    /\ \E doc \in index : doc.notebook_id = "n1" /\ doc.source_name = 1


----------------------------------------------------------------------------
(* The chat handler and the settings handler *)

\* for s in nb["sources"]: the stored content of the selected sources and
\* its total length
RECURSIVE ChatContentLoop(_, _, _, _)
ChatContentLoop(st, sources, selected_sources, i) ==
    IF i > Len(sources) THEN st
    ELSE LET s == sources[i]
         IN ChatContentLoop(
                IF /\ s.name \in {selected_sources[k] : k \in DOMAIN selected_sources}
                   /\ Len(s.content) > 0
                THEN [temp_content |-> Append(st.temp_content,
                                              [name |-> s.name, content |-> s.content]),
                      total_chars |-> st.total_chars + Len(s.content)]
                ELSE st,
                sources, selected_sources, i + 1)

ChatContent(sources, selected_sources) ==
    ChatContentLoop([temp_content |-> <<>>, total_chars |-> 0], sources,
                    selected_sources, 1)

\* 0 < total_chars < MAX_FULL_CONTEXT: the chained comparison is false
\* when total_chars is 0; otherwise it evaluates the name
\* MAX_FULL_CONTEXT, which no module of the program binds.
BelowBudget(total_chars) ==
    IF ~(0 < total_chars)
    THEN [value |-> FALSE, raised |-> ""]
    ELSE [value |-> FALSE, raised |-> "NameError"]

\* the full_source_content stream_and_save passes on; an exception of the
\* block is printed and leaves the list empty
ChatFullSourceContent(sources, selected_sources) ==
    IF Len(selected_sources) = 0 THEN <<>>
    ELSE LET st == ChatContent(sources, selected_sources)
             b == BelowBudget(st.total_chars)
         IN IF b.raised = "" /\ b.value THEN st.temp_content ELSE <<>>

\* requests of the chat handler: one user message; no selection, a source
\* with stored content, a source still processing, two sources
ChatMessageLists == {<<UserMsg(1)>>}
ChatSelections == {<<>>, <<1>>, <<3>>, <<2, 1>>}

\* POST /chat up to the first fragment: stream_and_save loads the full
\* content of the selected sources and starts rag.stream_chat_response.
chat ==
    /\ pc = "idle"
    /\ \E notebook_id \in Notebooks, messages \in ChatMessageLists,
          sel \in ChatSelections :
        LET full == ChatFullSourceContent(db[notebook_id], sel)
        IN \E fail \in (IF Len(full) > 0 THEN {{}} ELSE FailChoices(sel)) :
            /\ BeginStream(notebook_id, messages, sel, full, fail)
            /\ handled' = Handled("chat", notebook_id, 0, "", "", <<>>)
    /\ UNCHANGED <<environ, regCall, health, calls, history, index, db, gemini>>

\* settings posted in one run
MaxPosts == 1

\* bodies of POST /settings: the defaults, an adapter without embeddings,
\* an adapter with embeddings, the default adapter with another model
SettingsRequest(chat_name, chat_model, embedding_name, embedding_model) ==
    [chat_provider |-> chat_name, chat_model |-> chat_model,
     embedding_provider |-> embedding_name, embedding_model |-> embedding_model]
SettingsRequests ==
    {SettingsRequest("ollama", "m1", "ollama", "m1"),
     SettingsRequest("anthropic", "m1", "anthropic", "m1"),
     SettingsRequest("openai", "m1", "openai", "m1"),
     SettingsRequest("ollama", "m2", "ollama", "m2")}

\* update_settings: the Ollama adapter is taken for its URL, then the chat
\* provider is set, then the embedding provider with Ollama as fallback
UpdateSettings(reg, env, request) ==
    LET g == GetProvider(reg, env, "ollama")
        c == SetChatProvider(g.reg, env, request.chat_provider, request.chat_model)
    IN IF c.raised /= "" THEN c
       ELSE LET e == SetEmbeddingProvider(c.reg, env, request.embedding_provider,
                                          request.embedding_model)
            IN IF e.raised = "ValueError"
               THEN SetEmbeddingProvider(e.reg, env, "ollama", request.embedding_model)
               ELSE e

\* POST /settings
update_settings ==
    /\ calls < MaxPosts
    /\ \E request \in SettingsRequests :
        Served("update_settings", request.chat_provider, request.chat_model,
               request.embedding_provider, UpdateSettings(registry, environ, request))
    /\ UNCHANGED <<chainVars, environ, health>>

\* A chat request streamed to its end while settings are posted.
ChatNext ==
    \/ chat
    \/ update_settings
    \/ provider_yield
    \/ consumer_next
    \/ provider_end
    \/ yield_citations
    \/ stream_end

ChatSpec == Init /\ [][ChatNext]_vars

\* Uploads processed and sources deleted.
HandlerNext ==
    \/ process_file_task
    \/ delete_source

HandlerSpec == Init /\ [][HandlerNext]_vars

\* Requests that embed, through the chain or the legacy path, while
\* settings are posted.
EmbeddingNext ==
    \/ process_file_task
    \/ chat
    \/ update_settings

EmbeddingSpec == Init /\ [][EmbeddingNext]_vars


----------------------------------------------------------------------------
(* Mode of a chat request *)

ChatServed == handled.op = "chat" /\ pc /= "idle"

\* the stored content of the sources the request selected
SelectedContent == ChatContent(db[call.notebook_id], call.selected_sources)

\* C24: in the chat handler, selected sources whose stored content has a
\* total length above 0 and below the size budget are passed to the
\* orchestrator, which answers in full-context mode; a total of 0 gives
\* an empty full_source_content and retrieval mode. A total of one
\* character is below every budget under which full-context mode can be
\* reached at all.
C24_FullContextBelowBudget ==
    (ChatServed /\ Len(call.selected_sources) > 0) =>
        /\ SelectedContent.total_chars = 0 =>
            /\ call.full_source_content = <<>>
            /\ Len(searches) > 0
        /\ SelectedContent.total_chars = 1 =>
            /\ call.full_source_content = SelectedContent.temp_content
            /\ searches = <<>>
            /\ DOMAIN citation_info = 1..Len(SelectedContent.temp_content)


----------------------------------------------------------------------------
(* A stream in flight while the settings change *)

InFlight == pc /= "idle" /\ streaming /= NoEmbeddings

\* C29: stream_response resolves the active chat provider and its model
\* once, before the first fragment; a set_chat_provider call between two
\* fragments of a stream in flight changes neither the adapter instance
\* nor the model that produce the remaining fragments, nor the citation
\* footer, and takes effect for streams started afterwards.
C29_StreamKeepsItsProvider ==
    [][/\ (pc = "idle" /\ pc' = "awaiting") =>
            /\ streaming' = ActiveChat(registry')
            /\ producers' = <<>>
       /\ InFlight =>
            /\ streaming' = streaming
            /\ citation_info' = citation_info
       /\ \A i \in DOMAIN producers' : producers'[i].by = streaming'
       /\ (InFlight /\ calls' /= calls) =>
            /\ provided' = provided
            /\ out' = out
       /\ (pc = "sentinel" /\ pc' = "json") =>
            out'[Len(out')] = JsonFragment(citation_info)]_vars

\* A stream ended with its citation footer after the settings were posted
\* between its first and its second fragment, naming another adapter or
\* another model than the stream was started on.
C29_Witness ==
    /\ ChatServed
    /\ pc = "done"
    /\ Len(producers) >= 2
    /\ producers[1].active = streaming
    /\ producers[2].active /= streaming
    /\ producers[2].by = streaming
    /\ HasCitations(citation_info)
    /\ out[Len(out)] = JsonFragment(citation_info)

\* the same, the settings naming another model of the adapter instance the
\* stream runs on
C29_WitnessSameAdapter ==
    /\ C29_Witness
    /\ producers[2].active.provider_name = streaming.provider_name
    /\ producers[2].active.instance = streaming.instance
    /\ producers[2].active.model /= streaming.model


----------------------------------------------------------------------------
(* The embedding function of a chain request *)

\* the step is an add_documents or a retrieve_context of the RAG chain
ChainEmbedStep ==
    \/ /\ history' /= history
       /\ history'[Len(history')].op = "process_document"
       /\ history'[Len(history')].path = "chain"
    \/ /\ pc = "idle" /\ pc' /= "idle"
       /\ call'.full_source_content = <<>>

\* C22: once set_embedding_provider(X, m) has returned, every later
\* add_documents and retrieve_context of the chain embeds with provider X,
\* the selection being read on every request, also when the chain served
\* requests under an earlier selection.
C22_EmbeddingSelectionReadPerRequest ==
    [][ChainEmbedStep =>
        embedded_by'.provider_name = registry'.embedding_provider_name]_vars


----------------------------------------------------------------------------
(* GeminiProvider.stream_chat *)

\* what a generate_content_stream request answers: the texts of its
\* chunks, in order ("" is a chunk without text)
Responses == {<<"x", "y">>, <<"x", "", "y", "x">>, <<"y">>}

\* the fragments a response yields: "if chunk.text: yield chunk.text"
Texts(response) == SelectSeq(response, LAMBDA t : t /= "")

GeminiStream(state, response, pos, delivered) ==
    [state |-> state, response |-> response, pos |-> pos, delivered |-> delivered]

\* the next chunk of the response being iterated
NextChunk(g) ==
    LET t == g.response[g.pos + 1]
    IN [g EXCEPT !.pos = g.pos + 1,
                 !.delivered = IF t /= "" THEN Append(g.delivered, t) ELSE g.delivered]

otherVars ==
    <<index, history, pc, call, failed, retrievalVars, raised, streamVars,
      handlerVars, embeddingVars, providerVars, registryVars>>

\* stream_chat is called and awaits client.aio.models.generate_content_stream
gemini_stream_chat ==
    /\ gemini.state = "none"
    /\ \E response \in Responses :
        gemini' = GeminiStream("async", response, 0, <<>>)
    /\ UNCHANGED otherVars

\* async for chunk in ...: if chunk.text: yield chunk.text
gemini_async_chunk ==
    /\ gemini.state = "async"
    /\ gemini.pos < Len(gemini.response)
    /\ gemini' = NextChunk(gemini)
    /\ UNCHANGED otherVars

\* the async stream is exhausted: the generator returns
gemini_async_end ==
    /\ gemini.state = "async"
    /\ gemini.pos = Len(gemini.response)
    /\ gemini' = [gemini EXCEPT !.state = "done"]
    /\ UNCHANGED otherVars

\* the async request or its stream raises, before a chunk or after some:
\* except Exception, then client.models.generate_content_stream is called
\* with the same model, contents and config
gemini_async_raise ==
    /\ gemini.state = "async"
    /\ \E response \in Responses :
        gemini' = [gemini EXCEPT !.state = "sync", !.response = response, !.pos = 0]
    /\ UNCHANGED otherVars

\* for chunk in ...: if chunk.text: yield chunk.text
gemini_sync_chunk ==
    /\ gemini.state = "sync"
    /\ gemini.pos < Len(gemini.response)
    /\ gemini' = NextChunk(gemini)
    /\ UNCHANGED otherVars

gemini_sync_end ==
    /\ gemini.state = "sync"
    /\ gemini.pos = Len(gemini.response)
    /\ gemini' = [gemini EXCEPT !.state = "done"]
    /\ UNCHANGED otherVars

\* raise Exception(f"Gemini error: {e2}")
gemini_sync_raise ==
    /\ gemini.state = "sync"
    /\ gemini' = [gemini EXCEPT !.state = "raised"]
    /\ UNCHANGED otherVars

GeminiNext ==
    \/ gemini_stream_chat
    \/ gemini_async_chunk
    \/ gemini_async_end
    \/ gemini_async_raise
    \/ gemini_sync_chunk
    \/ gemini_sync_end
    \/ gemini_sync_raise

GeminiSpec == Init /\ [][GeminiNext]_vars

IsPrefix(s, t) == Len(s) <= Len(t) /\ SubSeq(t, 1, Len(s)) = s

\* C27: the fragments stream_chat delivers are those of a single backend
\* response, each once and in order, also when the async stream raised
\* after fragments were delivered and the sync stream is used.
C27_SingleResponseDelivered ==
    /\ \E response \in Responses : IsPrefix(gemini.delivered, Texts(response))
    /\ gemini.state = "done" => gemini.delivered = Texts(gemini.response)


----------------------------------------------------------------------------
(* Chunk IDs of sources added under any notebook id and name *)

\* notebook ids and source names of POST /notebooks/{notebook_id}/sources:
\* the path parameter and the name are strings the handler does not check
RequestNotebooks == {"n1", "n1_1"}
RequestNames == {2, 12}
TextContents == {Text(1, chunk_size - 200)}

\* POST /notebooks/{notebook_id}/sources with a text source: the content
\* is indexed at once and the source pushed on the notebook record
add_source ==
    /\ Len(history) < MaxOps
    /\ \E notebook_id \in RequestNotebooks, name \in RequestNames,
          content \in TextContents, path \in {"chain", "legacy", "failed"} :
        \E embedded \in (IF path = "legacy" THEN EmbeddedChoices(content) ELSE {{}}) :
            LET exc == ProcessDocumentRaises(path, content, embedded)
                status == IF exc = "" THEN "ready" ELSE "error"
            IN /\ ProcessDocumentCall(notebook_id, name, content, path, embedded)
               /\ db' = IF notebook_id \in DOMAIN db
                        THEN [db EXCEPT ![notebook_id] =
                                Append(@, Source(name, status, content))]
                        ELSE db
               /\ handled' = Handled("add_source", notebook_id, name, status, exc, <<>>)
    /\ UNCHANGED <<environ, regCall, health, calls, pc, call, failed, retrievalVars,
                   raised, streamVars, providerVars, gemini>>

AddSourceSpec == Init /\ [][add_source]_vars

\* the (notebook, source) pairs a request can name
RequestPairs == RequestNotebooks \X RequestNames

\* C26: the chunk ID is injective: two different (notebook_id,
\* source_name) pairs never give the same ID, whatever the chunk indices,
\* so ingesting one source leaves every chunk stored for another notebook
\* or another source in the index.
C26_ChunkIdInjective ==
    [][/\ \A a, b \in RequestPairs : \A i, j \in 0..1 :
            ChunkId(a[1], a[2], i) = ChunkId(b[1], b[2], j) => (a = b /\ i = j)
       /\ history' /= history =>
            LET c == history'[Len(history')]
            IN \A doc \in index :
                (doc.notebook_id /= c.notebook_id \/ doc.source_name /= c.source_name)
                    => doc \in index']_vars

====
